---- MODULE Spec2Model ----
(***************************************************************************)
(* The scripted flood-demo control surface (app/routes/control-lite.tsx,   *)
(* component FloodDemoControl) as a state machine.                         *)
(*                                                                         *)
(* The component is a React function component: its state is the useState  *)
(* cells and useRef cells, the timers it has armed, and nothing else.  An  *)
(* event (the tick interval, a timer callback, the Start button) runs its  *)
(* handler; React then renders and runs every effect whose dependencies    *)
(* changed, and repeats while effects keep changing state.  One action of  *)
(* this model is one event together with all the render passes it causes.  *)
(*                                                                         *)
(* Numbers are fixed-point integers.  Sensor values are held in units of   *)
(* 1/UNIT[k] of the physical unit, fractions of one in permille, and the   *)
(* likelihood in 1/LK_UNIT of a percentage point.  Time is counted in      *)
(* milliseconds, in steps of one tick interval.                            *)
(***************************************************************************)
EXTENDS Integers, Sequences, FiniteSets, TLC

(***************************************************************************)
(* Tunables (control-lite.tsx lines 37-64)                                 *)
(***************************************************************************)
TICK_MS == 250

\* EMA_ALPHA = 0.25, as a percentage
EMA_ALPHA_PCT == 25

MAX_STEP == 4

BUCKETS ==
  [NORMAL_MAX |-> 39, WATCH_MIN |-> 40, WATCH_MAX |-> 69,
   WARNING_MIN |-> 70, WARNING_MAX |-> 79, DANGER_MIN |-> 80]

COUNTDOWN_START_PCT == 95

COUNTDOWN_START_S == 20

PEAK_NOW_PCT == 99

PEAK_HOLD_MS == 15000

RAMP_UP_STEP == 4

RAMP_DOWN_STEP == 3

\* BASELINE_EPS = 0.03, as a percentage
BASELINE_EPS_PCT == 3

\* the period of the countdown interval (setInterval(..., 1000))
COUNTDOWN_PERIOD_MS == 1000

\* the rampUp exit thresholds: 3 s of DANGER, rain at its cap, 60 s fallback
DANGER_DWELL_MS == 3000

RAIN_CAP_PCT == 99

MAX_RAMPUP_MS == 60000

\* pushToast's default duration
TOAST_MS == 6000

(***************************************************************************)
(* Fixed-point helpers                                                     *)
(***************************************************************************)
\* the value of a ref or state cell that holds null
Null == 0 - 1

\* In the helpers below an argument that is used more than once is first bound
\* to its value (v \in {x}), so that it is evaluated once.
Abs(x) == CHOOSE r \in {IF v < 0 THEN 0 - v ELSE v : v \in {x}} : TRUE

Max(a, b) == CHOOSE r \in {IF v >= w THEN v ELSE w : v \in {a}, w \in {b}} : TRUE

Min(a, b) == CHOOSE r \in {IF v <= w THEN v ELSE w : v \in {a}, w \in {b}} : TRUE

\* n / d rounded to the nearest integer, halves away from zero (d > 0)
RoundDiv(n, d) ==
  CHOOSE r \in {IF v >= 0 THEN (2 * v + d) \div (2 * d)
                ELSE 0 - ((2 * (0 - v) + d) \div (2 * d)) : v \in {n}} : TRUE

\* n / d rounded away from zero (d > 0): a fractional step still moves
AwayDiv(n, d) ==
  CHOOSE r \in {IF v >= 0 THEN (v + d - 1) \div d
                ELSE 0 - (((0 - v) + d - 1) \div d) : v \in {n}} : TRUE

\* n / d truncated toward zero (d > 0)
TruncDiv(n, d) ==
  CHOOSE r \in {IF v >= 0 THEN v \div d ELSE 0 - ((0 - v) \div d) : v \in {n}} : TRUE

\* units per physical unit of each sensor, and per percentage point of the
\* likelihood
UNIT ==
  [airTemp |-> 10, humidity |-> 1, level |-> 100, flow |-> 100,
   pressure |-> 1, wind |-> 10, soil |-> 1, turbidity |-> 1,
   waterTemp |-> 10, upstreamLevel |-> 100, rainRate |-> 1, dischargeQ |-> 1]

LK_UNIT == 4

SensorKeys == DOMAIN UNIT

(***************************************************************************)
(* Baselines & helpers (lines 86-113)                                      *)
(***************************************************************************)
\* BASE, in units of 1/UNIT[k]
BASE ==
  [airTemp |-> 310, humidity |-> 70, level |-> 120, flow |-> 80,
   pressure |-> 1008, wind |-> 15, soil |-> 25, turbidity |-> 10,
   waterTemp |-> 290, upstreamLevel |-> 110, rainRate |-> 0, dischargeQ |-> 96]

\* clamp01 on a fraction held in permille
clamp01(x) == Max(0, Min(1000, x))

\* lerp(a, b, t) with t in percent; the step is rounded away from zero, so that
\* the value keeps moving toward b as the real-valued one does
lerp(a, b, t) == CHOOSE r \in {v + AwayDiv((b - v) * t, 100) : v \in {a}} : TRUE

\* Math.pow(r / 100, p) in permille, for r in 0..100
POW_1_12 ==
  <<
     0, 6, 13, 20, 27, 35, 43, 51, 59, 67, 76, 84,
     93, 102, 111, 119, 128, 137, 147, 156, 165, 174, 183, 193,
     202, 212, 221, 231, 240, 250, 260, 269, 279, 289, 299, 309,
     318, 328, 338, 348, 358, 368, 378, 389, 399, 409, 419, 429,
     440, 450, 460, 470, 481, 491, 502, 512, 522, 533, 543, 554,
     564, 575, 585, 596, 607, 617, 628, 639, 649, 660, 671, 681,
     692, 703, 714, 725, 735, 746, 757, 768, 779, 790, 801, 812,
     823, 834, 845, 856, 867, 878, 889, 900, 911, 922, 933, 944,
     955, 966, 978, 989, 1000
  >>

POW_1_35 ==
  <<
     0, 2, 5, 9, 13, 18, 22, 28, 33, 39, 45, 51,
     57, 64, 70, 77, 84, 91, 99, 106, 114, 122, 130, 138,
     146, 154, 162, 171, 179, 188, 197, 206, 215, 224, 233, 242,
     252, 261, 271, 281, 290, 300, 310, 320, 330, 340, 351, 361,
     371, 382, 392, 403, 414, 424, 435, 446, 457, 468, 479, 491,
     502, 513, 524, 536, 547, 559, 571, 582, 594, 606, 618, 630,
     642, 654, 666, 678, 690, 703, 715, 727, 740, 752, 765, 778,
     790, 803, 816, 829, 841, 854, 867, 880, 894, 907, 920, 933,
     946, 960, 973, 987, 1000
  >>

POW_1_7 ==
  <<
     0, 0, 1, 3, 4, 6, 8, 11, 14, 17, 20, 23,
     27, 31, 35, 40, 44, 49, 54, 59, 65, 70, 76, 82,
     88, 95, 101, 108, 115, 122, 129, 137, 144, 152, 160, 168,
     176, 184, 193, 202, 211, 220, 229, 238, 248, 257, 267, 277,
     287, 297, 308, 318, 329, 340, 351, 362, 373, 385, 396, 408,
     420, 432, 444, 456, 468, 481, 493, 506, 519, 532, 545, 559,
     572, 586, 599, 613, 627, 641, 655, 670, 684, 699, 714, 729,
     743, 759, 774, 789, 805, 820, 836, 852, 868, 884, 900, 916,
     933, 950, 966, 983, 1000
  >>

\* easePow(x, p) for x = r / 100 (r a rain percentage, so clamp01 is applied to
\* r first) and p one of the three exponents the component uses (112, 135, 170
\* hundredths); the result is in permille
easePow(r, p) ==
  LET c == Max(0, Min(100, r))
  IN  CASE p = 112 -> POW_1_12[c + 1]
        [] p = 135 -> POW_1_35[c + 1]
        [] p = 170 -> POW_1_7[c + 1]

\* approxEqual(a, b, epsAbs) with epsAbs = epsNum / epsDen
approxEqual(a, b, epsNum, epsDen) == Abs(a - b) * epsDen <= epsNum

(***************************************************************************)
(* Targets from rain (lines 146-182)                                       *)
(***************************************************************************)
\* BASE[k] + gain * x / 1000, with gain in units of 1/UNIT[k] and x in permille
Gain(k, gain, x) == BASE[k] + RoundDiv(gain * x, 1000)

targets(r) ==
  LET x1 == easePow(r, 112)
      x2 == easePow(r, 135)
      x3 == easePow(r, 170)
      level == Gain("level", 75, x2)
      flow == Gain("flow", 90, x1)
  IN  [airTemp |-> Gain("airTemp", 0 - 25, x1),
       humidity |-> Gain("humidity", 25, x1),
       level |-> level,
       flow |-> flow,
       pressure |-> Gain("pressure", 0 - 9, x1),
       wind |-> Gain("wind", 32, x1),
       soil |-> Gain("soil", 35, x1),
       turbidity |-> Gain("turbidity", 85, x3),
       waterTemp |-> Gain("waterTemp", 0 - 14, x1),
       upstreamLevel |-> Gain("upstreamLevel", 80, x2),
       rainRate |-> Gain("rainRate", 120, x1),
       dischargeQ |-> RoundDiv(level * flow * 100 * UNIT.dischargeQ,
                               UNIT.level * UNIT.flow)]

(***************************************************************************)
(* Likelihood algorithm (lines 185-214)                                    *)
(***************************************************************************)
\* clamp01(dev / scale), dev and scale in the sensor's units, in permille
Norm(dev, scale) == clamp01(TruncDiv(dev * 1000, scale))

\* the weighted score with a level weight of 0.26
rawLikelihood_LowWeight(s) ==
  LET fLevel == Norm(s.level - BASE.level, 75)
      fFlow == Norm(s.flow - BASE.flow, 90)
      fUp == Norm(s.upstreamLevel - BASE.upstreamLevel, 80)
      fTurb == Norm(s.turbidity - BASE.turbidity, 85)
      fRain == Norm(s.rainRate - BASE.rainRate, 120)
      fPdrop == Norm(BASE.pressure - s.pressure, 9)
      score == 26 * fLevel + 20 * fFlow + 20 * fUp + 14 * fTurb + 14 * fRain
               + 5 * fPdrop
  IN  RoundDiv(clamp01(RoundDiv(score, 100)) * 100 * LK_UNIT, 1000)

\* the weighted score, in 1/LK_UNIT percent
rawLikelihood(s) ==
  LET fLevel == Norm(s.level - BASE.level, 75)
      fFlow == Norm(s.flow - BASE.flow, 90)
      fUp == Norm(s.upstreamLevel - BASE.upstreamLevel, 80)
      fTurb == Norm(s.turbidity - BASE.turbidity, 85)
      fRain == Norm(s.rainRate - BASE.rainRate, 120)
      fPdrop == Norm(BASE.pressure - s.pressure, 9)
      score == 27 * fLevel + 20 * fFlow + 20 * fUp + 14 * fTurb + 14 * fRain
               + 5 * fPdrop
  IN  RoundDiv(clamp01(RoundDiv(score, 100)) * 100 * LK_UNIT, 1000)

\* the setLk updater without the step clamp
Smooth_NoClamp(prev, raw) == prev + AwayDiv(EMA_ALPHA_PCT * (raw - prev), 100)

\* the setLk updater: exponential smoothing, then the step clamp
Smooth(prev, raw) ==
  LET ema(p) == p + AwayDiv(EMA_ALPHA_PCT * (raw - p), 100)
      clamped(p) == Max(p - MAX_STEP * LK_UNIT, Min(p + MAX_STEP * LK_UNIT, ema(p)))
  IN  CHOOSE r \in {clamped(p) : p \in {prev}} : TRUE

\* Math.round(lk)
Round(l) == RoundDiv(l, LK_UNIT)

(***************************************************************************)
(* Stage logic helpers (lines 217-251)                                     *)
(***************************************************************************)
\* approxEqual(S.k, BASE.k, Math.abs(BASE.k) * BASELINE_EPS)
NearBase(s, k) == approxEqual(s[k], BASE[k], Abs(BASE[k]) * BASELINE_EPS_PCT, 100)

\* the `close` flag of the stage effect: every tracked sensor is within
\* tolerance of its baseline (rainRate within 1.0 mm/h; dischargeQ is not
\* tracked)
close(s) ==
  /\ NearBase(s, "airTemp")
  /\ NearBase(s, "humidity")
  /\ NearBase(s, "level")
  /\ NearBase(s, "flow")
  /\ NearBase(s, "pressure")
  /\ NearBase(s, "wind")
  /\ NearBase(s, "soil")
  /\ NearBase(s, "turbidity")
  /\ NearBase(s, "waterTemp")
  /\ NearBase(s, "upstreamLevel")
  /\ approxEqual(s.rainRate, BASE.rainRate, UNIT.rainRate, 1)

\* the bucket with WATCH starting five points late
Bucket_LateWatch(p) ==
  IF p >= BUCKETS.DANGER_MIN THEN "danger"
  ELSE IF p >= BUCKETS.WARNING_MIN THEN "warning"
  ELSE IF p >= BUCKETS.WATCH_MIN + 5 THEN "watch"
  ELSE "normal"

\* the bucket of a rounded likelihood p
Bucket(p) ==
  IF p >= BUCKETS.DANGER_MIN THEN "danger"
  ELSE IF p >= BUCKETS.WARNING_MIN THEN "warning"
  ELSE IF p >= BUCKETS.WATCH_MIN THEN "watch"
  ELSE "normal"

stageToStatusLabel ==
  [normal |-> "NORMAL", watch |-> "WATCH", warning |-> "WARNING",
   danger |-> "DANGER", subsiding |-> "SUBSIDING"]

(***************************************************************************)
(* Component state (lines 118-143, 303-306)                                *)
(***************************************************************************)
VARIABLES
  phase,              \* SimPhase
  rain,               \* 0..100
  S,                  \* live sensor readings
  lk,                 \* smoothed likelihood, in 1/LK_UNIT percent
  lkRef,              \* lkRef.current
  stage,              \* FloodStage
  etaSeconds,         \* Null, or the countdown value
  etaNow,             \* "Now"
  countdownTimerRef,  \* Null, or the handle of the countdown interval
  peakHoldTimerRef,   \* Null, or the handle of the peak-hold timeout
  dangerAlertedRef,   \* the DANGER one-shot flag
  rampUpSinceRef,     \* Null, or the time since the recorded performance.now()
  dangerSinceRef,     \* Null, or the time since the recorded performance.now()
  toasts,             \* the toast list, as the sequence of toast ids
  timers,             \* the armed timers of the window, other than the tick
                      \* interval: records [id, kind, left, arg], `left` the
                      \* time in ms to the (next) firing
  restarts            \* the calls of onStartDemo made while not idle

\* The manual control surface (control.tsx, component Control)
VARIABLES
  ctlRain,            \* rain, 0..100
  level,              \* the river level, in mm
  pm,                 \* PMState
  rampIntervalRef,    \* Null, or the handle of the ramp interval
  holdTimeoutRef,     \* Null, or the handle of the hold timeout (it is kept
                      \* after the timeout has fired)
  didStartHoldRef,    \* the hold one-shot flag
  ctlToasts,          \* the toast list, as the sequence of toast ids
  toastIdRef,         \* the last toast id handed out
  etaStartedRef,      \* the ETA-started one-shot flag
  etaCleanup,         \* Null, or the handle the cleanup of the toast effect
                      \* will clear when the effect next runs
  ctlTimers,          \* the armed timers of the window, other than the
                      \* physics interval: records [id, kind, left, arg]
  ctlInputs,          \* the operator inputs made so far
  wasRainingRef,      \* whether the last TRIGGER_STATE sent was RAIN
  ctlOut              \* the actions Control sent in its last event

\* The transport (utils/sensorBus: river-ov.tsx lines 200-306), the displays
\* (sky.tsx, river.tsx) and the action bus (lib/bus), over the browsing
\* contexts of the origin
VARIABLES
  bcAvailable,        \* per context: new BroadcastChannel(..) succeeds there
  channel,            \* per context: the module-level channel is constructed
  localStorage,       \* the origin's store: per key the stored string, or
                      \* NoItem
  now,                \* Date.now()
  subs,               \* per subscriber: "none", "on" or "off", the listeners
                      \* attached, and the number of publishes of its kind
                      \* made before it subscribed / unsubscribed
  msgTasks,           \* per context: the message events queued for its channel
  storageTasks,       \* per context: the storage events queued for its window
  received,           \* per subscriber: the payloads cb was invoked with
  thrown,             \* an exception has escaped publish or subscribe
  published,          \* per kind: the payloads published, oldest first
  busTasks,           \* per display: the message events queued for its bus
  displayOpen,        \* per display: mounted, its bus not closed
  displayState,       \* per display: state, "NORMAL" or "RAIN"
  displaySrc,         \* per display: the video the element plays
  sent                \* the actions sent on the action bus so far

busVars ==
  <<bcAvailable, channel, localStorage, now, subs, msgTasks, storageTasks,
    received, thrown, published, busTasks, displayOpen, displayState,
    displaySrc, sent>>

\* The overlay pages' hooks (useSkyFromBusWithDemo of the sky overlay,
\* useSensorsFromBusWithDemo of river-ov.tsx)
VARIABLES
  skyD,               \* the sky overlay's held state d
  hasLiveRef,         \* the sky overlay has seen live data
  riverD,             \* the river overlay's held state d
  ovDelivered,        \* per overlay: the snapshots its callback was given
  ovLast,             \* per overlay: the last snapshot its callback was given
  ovDrifts            \* the firings of the overlays' drift intervals so far

ovVars == <<skyD, hasLiveRef, riverD, ovDelivered, ovLast, ovDrifts>>

\* Whether each control surface is mounted
VARIABLES
  liteMounted,        \* FloodDemoControl is mounted
  ctlMounted          \* Control is mounted

mountVars == <<liteMounted, ctlMounted>>

ctlVars ==
  <<ctlRain, level, pm, rampIntervalRef, holdTimeoutRef, didStartHoldRef,
    ctlToasts, toastIdRef, etaStartedRef, etaCleanup, ctlTimers, ctlInputs,
    wasRainingRef, ctlOut>>

\* the cells of control-lite's component
liteVars ==
  <<phase, rain, S, lk, lkRef, stage, etaSeconds, etaNow, countdownTimerRef,
    peakHoldTimerRef, dangerAlertedRef, rampUpSinceRef, dangerSinceRef,
    toasts, timers>>

vars == <<liteVars, restarts, ctlVars, busVars, ovVars, mountVars>>

\* the component's cells as one record
Comp ==
  [phase |-> phase, rain |-> rain, S |-> S, lk |-> lk, lkRef |-> lkRef,
   stage |-> stage, etaSeconds |-> etaSeconds, etaNow |-> etaNow,
   countdownTimerRef |-> countdownTimerRef,
   peakHoldTimerRef |-> peakHoldTimerRef,
   dangerAlertedRef |-> dangerAlertedRef, rampUpSinceRef |-> rampUpSinceRef,
   dangerSinceRef |-> dangerSinceRef, toasts |-> toasts, timers |-> timers]

\* the cells after an event: c is the record the event and its effects left
CommitCells(c) ==
  /\ phase' = c.phase
  /\ rain' = c.rain
  /\ S' = c.S
  /\ lk' = c.lk
  /\ lkRef' = c.lkRef
  /\ stage' = c.stage
  /\ etaSeconds' = c.etaSeconds
  /\ etaNow' = c.etaNow
  /\ countdownTimerRef' = c.countdownTimerRef
  /\ peakHoldTimerRef' = c.peakHoldTimerRef
  /\ dangerAlertedRef' = c.dangerAlertedRef
  /\ rampUpSinceRef' = c.rampUpSinceRef
  /\ dangerSinceRef' = c.dangerSinceRef
  /\ toasts' = c.toasts
  /\ timers' = c.timers

\* an event of control-lite's component, which is mounted, leaves everything
\* else as it is
Commit(c) ==
  /\ liteMounted
  /\ CommitCells(c)
  /\ UNCHANGED <<restarts, ctlVars, busVars, ovVars, mountVars>>

(***************************************************************************)
(* Timers: window.setInterval / setTimeout / clearInterval / clearTimeout  *)
(***************************************************************************)
\* a handle no armed timer has (handles are positive, so a handle is truthy)
FreshId(ts) ==
  CHOOSE i \in 1..(Cardinality(ts) + 1) : \A t \in ts : t.id # i

\* window.setInterval / window.setTimeout: arm a timer of the given kind
SetTimer(ts, kind, ms, arg) ==
  ts \cup {[id |-> FreshId(ts), kind |-> kind, left |-> ms, arg |-> arg]}

\* window.setInterval / window.setTimeout returning the handle h
SetTimerAt(ts, h, kind, ms, arg) ==
  ts \cup {[id |-> h, kind |-> kind, left |-> ms, arg |-> arg]}

\* window.clearInterval(h) / window.clearTimeout(h)
ClearTimer(ts, h) == {t \in ts : t.id # h}

(***************************************************************************)
(* Toasts (lines 303-319)                                                  *)
(***************************************************************************)
\* an id no toast in the list and no pending expiry has
FreshToast(c) ==
  LET used == {c.toasts[i] : i \in DOMAIN c.toasts}
              \cup {t.arg : t \in {u \in c.timers : u.kind = "toast"}}
  IN  CHOOSE i \in 1..(Cardinality(used) + 1) : i \notin used

pushToast(c) ==
  LET id == FreshToast(c)
  IN  [c EXCEPT !.toasts = Append(@, id),
                !.timers = SetTimer(@, "toast", TOAST_MS, id)]

\* ts.filter(t => t.id !== id)
FilterToast(ts, id) == SelectSeq(ts, LAMBDA x : x # id)

(***************************************************************************)
(* Effects.  Each takes the cells of the previous render (prev), the cells *)
(* rendered now (cur: what the effect's closure reads) and the cells as    *)
(* the effects run so far have left them (acc: refs and timers are read    *)
(* and written there at once, state writes are queued there); it returns   *)
(* acc after the effect.  An effect runs when one of its dependencies      *)
(* differs between prev and cur.                                           *)
(***************************************************************************)
\* lines 207-214: smooth + clamp the likelihood
SmoothEffect(prev, cur, acc) ==
  CHOOSE r \in
    {IF raw = rawLikelihood(prev.S) THEN acc
     ELSE CHOOSE a \in {[acc EXCEPT !.lk = clamped, !.lkRef = clamped] :
                          clamped \in {Smooth(acc.lk, raw)}} : TRUE :
       raw \in {rawLikelihood(cur.S)}} : TRUE

\* the stage logic going idle without clearing the ETA and the one-shot flag
StageEffect_KeepFlags(prev, cur, acc) ==
  IF cur.lk = prev.lk /\ cur.phase = prev.phase /\ cur.S = prev.S THEN acc
  ELSE IF cur.phase = "rampDown" /\ ~close(cur.S)
       THEN [acc EXCEPT !.stage = "subsiding"]
       ELSE LET a == [acc EXCEPT !.stage = Bucket(Round(cur.lk))]
            IN  IF cur.phase = "rampDown" /\ close(cur.S)
                THEN [a EXCEPT !.phase = "idle"]
                ELSE a

\* lines 217-251: stage logic
StageEffect(prev, cur, acc) ==
  IF cur.lk = prev.lk /\ cur.phase = prev.phase /\ cur.S = prev.S THEN acc
  ELSE IF cur.phase = "rampDown" /\ ~close(cur.S)
       THEN [acc EXCEPT !.stage = "subsiding"]
       ELSE LET a == [acc EXCEPT !.stage = Bucket(Round(cur.lk))]
            IN  IF cur.phase = "rampDown" /\ close(cur.S)
                THEN [a EXCEPT !.phase = "idle", !.etaSeconds = Null,
                               !.etaNow = FALSE, !.dangerAlertedRef = FALSE]
                ELSE a

\* lines 256-261: clearCountdown
clearCountdown(acc) ==
  IF acc.countdownTimerRef # Null
  THEN [acc EXCEPT !.timers = ClearTimer(@, acc.countdownTimerRef),
                   !.countdownTimerRef = Null]
  ELSE acc

\* the countdown started in the window whether or not a value is present
StartCountdown_Unguarded(cur, acc) ==
  IF /\ acc.lkRef >= COUNTDOWN_START_PCT * LK_UNIT
     /\ acc.lkRef < PEAK_NOW_PCT * LK_UNIT
  THEN [acc EXCEPT !.etaSeconds = COUNTDOWN_START_S,
                   !.countdownTimerRef = FreshId(acc.timers),
                   !.timers = SetTimer(@, "countdown", COUNTDOWN_PERIOD_MS, 0)]
  ELSE acc

\* lines 270-283: start the countdown at 95..98%
StartCountdown(cur, acc) ==
  IF /\ acc.lkRef >= COUNTDOWN_START_PCT * LK_UNIT
     /\ acc.lkRef < PEAK_NOW_PCT * LK_UNIT
     /\ cur.etaSeconds = Null
  THEN [acc EXCEPT !.etaSeconds = COUNTDOWN_START_S,
                   !.countdownTimerRef = FreshId(acc.timers),
                   !.timers = SetTimer(@, "countdown", COUNTDOWN_PERIOD_MS, 0)]
  ELSE acc

\* the 99% branch left out
ShowNow_Never(cur, acc) == acc

\* the 99% branch keeping the countdown value
ShowNow_KeepSeconds(cur, acc) ==
  IF acc.lkRef >= PEAK_NOW_PCT * LK_UNIT
  THEN clearCountdown([acc EXCEPT !.etaNow = TRUE])
  ELSE acc

\* lines 285-290: at 99%+, show "Now"
ShowNow(cur, acc) ==
  IF acc.lkRef >= PEAK_NOW_PCT * LK_UNIT
  THEN clearCountdown([acc EXCEPT !.etaNow = TRUE, !.etaSeconds = Null])
  ELSE acc

\* the cancel branch clearing the value but not the interval
CancelCountdown_KeepTimer(cur, acc) ==
  IF acc.lkRef < COUNTDOWN_START_PCT * LK_UNIT /\ cur.etaSeconds # Null
  THEN [acc EXCEPT !.etaSeconds = Null]
  ELSE acc

\* lines 292-296: a drop below 95% cancels the countdown
CancelCountdown(cur, acc) ==
  IF acc.lkRef < COUNTDOWN_START_PCT * LK_UNIT /\ cur.etaSeconds # Null
  THEN clearCountdown([acc EXCEPT !.etaSeconds = Null])
  ELSE acc

\* lines 254-301: ETA logic
EtaEffect(prev, cur, acc) ==
  IF cur.lk = prev.lk /\ cur.etaSeconds = prev.etaSeconds
     /\ cur.etaNow = prev.etaNow
  THEN acc
  ELSE IF cur.etaNow THEN clearCountdown(acc)
       ELSE CancelCountdown(cur, ShowNow(cur, StartCountdown(cur, acc)))

\* the DANGER alert without the one-shot latch
DangerAlertEffect_NoLatch(prev, cur, acc) ==
  IF cur.stage = prev.stage THEN acc
  ELSE IF ~acc.dangerAlertedRef /\ cur.stage = "danger"
       THEN pushToast(acc)
       ELSE acc

\* lines 322-330: DANGER alert one-shot
DangerAlertEffect(prev, cur, acc) ==
  IF cur.stage = prev.stage THEN acc
  ELSE IF ~acc.dangerAlertedRef /\ cur.stage = "danger"
       THEN pushToast([acc EXCEPT !.dangerAlertedRef = TRUE])
       ELSE acc

\* lines 332-338: how long the stage has been danger within rampUp
DangerSinceEffect(prev, cur, acc) ==
  IF cur.phase = prev.phase /\ cur.stage = prev.stage THEN acc
  ELSE IF cur.phase = "rampUp" /\ cur.stage = "danger"
       THEN IF acc.dangerSinceRef = Null
            THEN [acc EXCEPT !.dangerSinceRef = 0]
            ELSE acc
       ELSE [acc EXCEPT !.dangerSinceRef = Null]

\* the rampUp exit with no trigger asked for
ExitRampUp_Always(cur, acc) == cur.phase = "rampUp"

\* lines 383-393: the rampUp exit triggers
ExitRampUp(cur, acc) ==
  LET inDangerForMs == IF acc.dangerSinceRef # Null THEN acc.dangerSinceRef ELSE 0
      rampUpForMs == IF acc.rampUpSinceRef # Null THEN acc.rampUpSinceRef ELSE 0
      sustainedDanger == inDangerForMs >= DANGER_DWELL_MS
      sustainedRain == cur.rain >= RAIN_CAP_PCT
      maxRampUpPassed == rampUpForMs >= MAX_RAMPUP_MS
  IN  \/ acc.lkRef >= PEAK_NOW_PCT * LK_UNIT
      \/ sustainedDanger
      \/ sustainedRain
      \/ maxRampUpPassed

\* the entry to peakHold without forcing the ETA to "Now"
PeakHoldEffect_NoNow(prev, cur, acc) ==
  IF cur.phase = prev.phase /\ cur.rain = prev.rain /\ cur.lk = prev.lk THEN acc
  ELSE IF cur.phase # "rampUp" \/ acc.peakHoldTimerRef # Null THEN acc
       ELSE IF ExitRampUp(cur, acc)
            THEN [acc EXCEPT !.phase = "peakHold", !.rain = 100,
                             !.peakHoldTimerRef = FreshId(acc.timers),
                             !.timers = SetTimer(@, "peakHold", PEAK_HOLD_MS, 0)]
            ELSE acc

\* lines 380-406: rampUp -> peakHold, arming the peak-hold timeout
PeakHoldEffect(prev, cur, acc) ==
  IF cur.phase = prev.phase /\ cur.rain = prev.rain /\ cur.lk = prev.lk THEN acc
  ELSE IF cur.phase # "rampUp" \/ acc.peakHoldTimerRef # Null THEN acc
       ELSE IF ExitRampUp(cur, acc)
            THEN [acc EXCEPT !.phase = "peakHold", !.rain = 100,
                             !.etaNow = TRUE, !.etaSeconds = Null,
                             !.peakHoldTimerRef = FreshId(acc.timers),
                             !.timers = SetTimer(@, "peakHold", PEAK_HOLD_MS, 0)]
            ELSE acc

\* one render: the effects in the order the component declares them, each
\* applied to the cells the one before it left
RenderPass(prev, cur) ==
  LET a1 == {SmoothEffect(prev, cur, cur)}
      a2 == {StageEffect(prev, cur, a) : a \in a1}
      a3 == {EtaEffect(prev, cur, a) : a \in a2}
      a4 == {DangerAlertEffect(prev, cur, a) : a \in a3}
      a5 == {DangerSinceEffect(prev, cur, a) : a \in a4}
      a6 == {PeakHoldEffect(prev, cur, a) : a \in a5}
  IN  CHOOSE a \in a6 : TRUE

\* render and run effects until no effect changes anything
RECURSIVE Settle(_, _)
Settle(prev, cur) ==
  CHOOSE r \in {IF nxt = cur THEN cur ELSE Settle(cur, nxt) :
                  nxt \in {RenderPass(prev, cur)}} : TRUE

(***************************************************************************)
(* Events                                                                  *)
(***************************************************************************)
\* Math.random() - 0.5, in halves: the draws of one tick
JitterDraws == {0 - 1, 0, 1}

\* lines 364: (Math.random() - 0.5) * j * (Math.abs(target) + 1), j = 0.005,
\* for the draw d / 2; a jitter below one unit of the sensor is dropped
Jitter(k, target, d) == d * TruncDiv((Abs(target) + UNIT[k]) * 5, 2 * 1000)

\* the setS updater with twice the jitter
EaseSensors_DoubleJitter(cur, tg, d) ==
  LET nxt(k) ==
        CHOOSE r \in {lerp(cur[k], target, 20) + 2 * Jitter(k, target, d) :
                        target \in {tg[k]}} : TRUE
  IN  [airTemp |-> nxt("airTemp"),
       humidity |-> Max(0, Min(100 * UNIT.humidity, nxt("humidity"))),
       level |-> nxt("level"),
       flow |-> nxt("flow"),
       pressure |-> nxt("pressure"),
       wind |-> nxt("wind"),
       soil |-> Max(0, Min(100 * UNIT.soil, nxt("soil"))),
       turbidity |-> Max(0, nxt("turbidity")),
       waterTemp |-> nxt("waterTemp"),
       upstreamLevel |-> nxt("upstreamLevel"),
       rainRate |-> nxt("rainRate"),
       dischargeQ |-> nxt("dischargeQ")]

\* lines 357-372: the setS updater, easing factor t = 0.2
EaseSensors(cur, tg, d) ==
  LET nxt(k) ==
        CHOOSE r \in {lerp(cur[k], target, 20) + Jitter(k, target, d) :
                        target \in {tg[k]}} : TRUE
  IN  [airTemp |-> nxt("airTemp"),
       humidity |-> Max(0, Min(100 * UNIT.humidity, nxt("humidity"))),
       level |-> nxt("level"),
       flow |-> nxt("flow"),
       pressure |-> nxt("pressure"),
       wind |-> nxt("wind"),
       soil |-> Max(0, Min(100 * UNIT.soil, nxt("soil"))),
       turbidity |-> Max(0, nxt("turbidity")),
       waterTemp |-> nxt("waterTemp"),
       upstreamLevel |-> nxt("upstreamLevel"),
       rainRate |-> nxt("rainRate"),
       dischargeQ |-> nxt("dischargeQ")]

\* the setRain updater with rain held during rampDown
DriveRain_Held(ph, prev) ==
  IF ph = "rampUp" THEN Min(100, prev + RAMP_UP_STEP) ELSE prev

\* the setRain updater without the floor of rampDown
DriveRain_NoFloor(ph, prev) ==
  IF ph = "rampUp" THEN Min(100, prev + RAMP_UP_STEP)
  ELSE IF ph = "rampDown" THEN prev - RAMP_DOWN_STEP
  ELSE prev

\* lines 344-354: the setRain updater
DriveRain(ph, prev) ==
  IF ph = "rampUp" THEN Min(100, prev + RAMP_UP_STEP)
  ELSE IF ph = "rampDown" THEN Max(0, prev - RAMP_DOWN_STEP)
  ELSE prev

\* the time to the next firing of every armed timer, one tick later
Elapse(ts) == {[t EXCEPT !.left = @ - TICK_MS] : t \in ts}

\* a performance.now() difference one tick later; it is read only against
\* the threshold `cap`
Age(since, cap) == IF since = Null THEN Null ELSE Min(cap, since + TICK_MS)

\* lines 341-378: the tick interval fires: TICK_MS pass, rain is driven by the
\* phase and the sensors ease toward the targets of the rendered rain.  A timer
\* that is due fires before the tick after this one.
Tick(d) ==
  /\ \A t \in timers : t.left >= 0
  /\ \E c \in {Comp} :
       \E h \in {[c EXCEPT !.rain = DriveRain(c.phase, @),
                        !.S = CHOOSE r \in {EaseSensors(c.S, tg, d) :
                                               tg \in {targets(c.rain)}} : TRUE,
                        !.timers = Elapse(@),
                        !.rampUpSinceRef =
                          IF c.phase = "rampUp" THEN Age(@, MAX_RAMPUP_MS) ELSE @,
                        !.dangerSinceRef = Age(@, DANGER_DWELL_MS)]} :
         \E n \in {Settle(c, h)} : Commit(n)

\* the countdown updater stepping by two
CountdownTick_ByTwo(prev) ==
  IF prev = Null THEN Null
  ELSE IF prev <= 1 THEN 1
  ELSE prev - 2

\* lines 273-282: the countdown interval fires
CountdownTick(prev) ==
  IF prev = Null THEN Null
  ELSE IF prev <= 1 THEN 1
  ELSE prev - 1

CountdownFire(t) ==
  /\ t \in timers
  /\ t.kind = "countdown"
  /\ t.left <= 0
  /\ \E c \in {Comp} :
       \E h \in {[c EXCEPT !.etaSeconds = CountdownTick(@),
                        !.timers = (@ \ {t})
                          \cup {[t EXCEPT !.left = @ + COUNTDOWN_PERIOD_MS]}]} :
         \E n \in {Settle(c, h)} : Commit(n)

\* lines 399-404: the peak-hold timeout fires
PeakHoldFire(t) ==
  /\ t \in timers
  /\ t.kind = "peakHold"
  /\ t.left <= 0
  /\ \E c \in {Comp} :
       \E h \in {[c EXCEPT !.peakHoldTimerRef = Null, !.phase = "rampDown",
                        !.etaNow = FALSE, !.etaSeconds = Null,
                        !.timers = @ \ {t}]} :
         \E n \in {Settle(c, h)} : Commit(n)

\* lines 316-318: a toast's auto-dismiss timeout fires
ToastExpire(t) ==
  /\ t \in timers
  /\ t.kind = "toast"
  /\ t.left <= 0
  /\ \E c \in {Comp} :
       \E h \in {[c EXCEPT !.toasts = FilterToast(@, t.arg), !.timers = @ \ {t}]} :
         \E n \in {Settle(c, h)} : Commit(n)

\* lines 308-310, 837: the user dismisses a toast of the list
dismissToast(id) ==
  /\ \E i \in DOMAIN toasts : toasts[i] = id
  /\ \E c \in {Comp} :
       \E h \in {[c EXCEPT !.toasts = FilterToast(@, id)]} :
         \E n \in {Settle(c, h)} : Commit(n)

\* the Start handler entering peakHold at once
StartDemo_SkipRamp(c) ==
  [c EXCEPT !.phase = "peakHold", !.etaSeconds = Null, !.etaNow = FALSE,
            !.dangerAlertedRef = FALSE, !.rampUpSinceRef = 0,
            !.dangerSinceRef = Null]

\* lines 422-430: the Start button's handler
StartDemo(c) ==
  [c EXCEPT !.phase = "rampUp", !.etaSeconds = Null, !.etaNow = FALSE,
            !.dangerAlertedRef = FALSE, !.rampUpSinceRef = 0,
            !.dangerSinceRef = Null]

\* lines 746-748: the button is disabled unless the phase is idle
onStartDemo ==
  /\ phase = "idle"
  /\ \E c \in {Comp} :
       \E h \in {StartDemo(c)} :
         \E n \in {Settle(c, h)} : Commit(n)

(***************************************************************************)
(* The manual control surface: control.tsx                                 *)
(*                                                                         *)
(* The river level is held in mm, rain in percent, time in ms in steps of  *)
(* one physics tick.  Of the ten eased sensors only the level feeds the    *)
(* ETA, the PM script and the toast; the others are display values.        *)
(***************************************************************************)
\* TICK_MS of control.tsx
CTL_TICK_MS == 200

\* BASE.level, GAIN.levelRise and FLOOD_LEVEL, in mm
CTL_BASE_LEVEL == 350

CTL_LEVEL_RISE == 700

FLOOD_LEVEL == 1000

\* ALPHA.level, as a percentage
ALPHA_LEVEL_PCT == 5

RAIN_THRESHOLD == 70

\* the ramp steps and periods of the PM script, the hold and the toast time
PM_UP_STEP == 10

PM_UP_MS == 800

PM_DOWN_STEP == 5

PM_DOWN_MS == 1000

PM_HOLD_MS == 20000

CTL_TOAST_MS == 8000

\* the value of etaSec that stands for Number.POSITIVE_INFINITY
Infinity == 0 - 2

\* 1000 * (r / 100) ^ 1.9 for r = 0..100 (index r + 1)
POW_1_9 ==
  <<
    0, 0, 1, 1, 2, 3, 5, 6, 8, 10,
    13, 15, 18, 21, 24, 27, 31, 35, 38, 43,
    47, 52, 56, 61, 66, 72, 77, 83, 89, 95,
    102, 108, 115, 122, 129, 136, 144, 151, 159, 167,
    175, 184, 192, 201, 210, 219, 229, 238, 248, 258,
    268, 278, 289, 299, 310, 321, 332, 344, 355, 367,
    379, 391, 403, 416, 428, 441, 454, 467, 481, 494,
    508, 522, 536, 550, 564, 579, 594, 609, 624, 639,
    654, 670, 686, 702, 718, 734, 751, 768, 784, 801,
    819, 836, 853, 871, 889, 907, 925, 944, 962, 981,
    1000>>

\* lines 112-131: targets.tLvl for rain r
tLvl(r) == CTL_BASE_LEVEL + RoundDiv(CTL_LEVEL_RISE * POW_1_9[Max(0, Min(100, r)) + 1], 1000)

\* the physics ticks until a distance d (in 1/1000 mm) that shrinks by
\* ALPHA.level per tick is at most df: Math.log(df / d0) / Math.log(1 - a),
\* to the next whole tick
RECURSIVE TicksToReach(_, _)
TicksToReach(d, df) ==
  IF d <= df THEN 0
  ELSE 1 + TicksToReach((d * (100 - ALPHA_LEVEL_PCT)) \div 100, df)

\* lines 60-68 with 0 returned where the target is at or below the flood level
etaToFloodSeconds_ZeroBelow(currentLevel, targetLevel) ==
  LET deltaFlood == targetLevel - FLOOD_LEVEL
      d0 == targetLevel - currentLevel
  IN  IF deltaFlood <= 0 THEN 0
      ELSE IF d0 <= deltaFlood THEN 0
      ELSE Max(0, TicksToReach(d0 * 1000, deltaFlood * 1000) * CTL_TICK_MS)

\* lines 60-68: etaToFloodSeconds, in ms
etaToFloodSeconds(currentLevel, targetLevel) ==
  LET deltaFlood == targetLevel - FLOOD_LEVEL
      d0 == targetLevel - currentLevel
  IN  IF deltaFlood <= 0 THEN Infinity
      ELSE IF d0 <= deltaFlood THEN 0
      ELSE Max(0, TicksToReach(d0 * 1000, deltaFlood * 1000) * CTL_TICK_MS)

\* the component's cells as one record
CtlComp ==
  [rain |-> ctlRain, level |-> level, pm |-> pm,
   rampIntervalRef |-> rampIntervalRef, holdTimeoutRef |-> holdTimeoutRef,
   didStartHoldRef |-> didStartHoldRef, toasts |-> ctlToasts,
   toastIdRef |-> toastIdRef, etaStartedRef |-> etaStartedRef,
   etaCleanup |-> etaCleanup, timers |-> ctlTimers,
   wasRainingRef |-> wasRainingRef, out |-> <<>>]

\* the cells after an event of the component
CtlCommitCells(c) ==
  /\ ctlRain' = c.rain
  /\ level' = c.level
  /\ pm' = c.pm
  /\ rampIntervalRef' = c.rampIntervalRef
  /\ holdTimeoutRef' = c.holdTimeoutRef
  /\ didStartHoldRef' = c.didStartHoldRef
  /\ ctlToasts' = c.toasts
  /\ toastIdRef' = c.toastIdRef
  /\ etaStartedRef' = c.etaStartedRef
  /\ etaCleanup' = c.etaCleanup
  /\ ctlTimers' = c.timers
  /\ wasRainingRef' = c.wasRainingRef
  /\ ctlOut' = c.out

\* the video displays: sky.tsx and river.tsx
Displays == {"sky", "river"}

\* lib/bus lines 9-13: the actions out, posted in this order, are queued as
\* message events at the displays whose bus is open at that moment; a
\* display reads the type of an action and the state of a TRIGGER_STATE
Post(out) ==
  /\ busTasks' =
       [d \in Displays |->
          IF displayOpen[d]
          THEN busTasks[d] \o [i \in DOMAIN out |->
                                 [type |-> out[i].type, state |-> out[i].state]]
          ELSE busTasks[d]]
  /\ UNCHANGED <<bcAvailable, channel, localStorage, now, subs, msgTasks,
                 storageTasks, received, thrown, published, displayOpen,
                 displayState, displaySrc, sent>>

\* an event of Control, which is mounted: what it sent is posted; the
\* message events of the event before have been dispatched by then
CtlCommit(c) ==
  /\ ctlMounted
  /\ \A d \in Displays : busTasks[d] = <<>>
  /\ CtlCommitCells(c)
  /\ Post(c.out)
  /\ UNCHANGED <<liteVars, restarts, ovVars, mountVars>>

\* line 163: etaSec of a render
etaSec(c) == etaToFloodSeconds(c.level, tLvl(c.rain))

\* lines 281-283: etaLabel; "s" stands for the label that counts seconds
etaLabel(e) ==
  IF e = Infinity THEN "No flood expected"
  ELSE IF e <= 0 THEN "Now" ELSE "s"

\* line 250: timerRunning
timerRunning(e) == e # Infinity /\ e > 0

\* the handle window.setInterval / window.setTimeout returns: browser timer
\* handles never repeat, so a handle still held by a ref or by the toast
\* cleanup (a fired hold timeout stays in holdTimeoutRef, line 227) is never
\* handed out again
CtlFreshId(c) ==
  CHOOSE i \in 1..(Cardinality(c.timers) + 4) :
    /\ \A t \in c.timers : t.id # i
    /\ i \notin {c.rampIntervalRef, c.holdTimeoutRef, c.etaCleanup}
    /\ \A j \in 1..(i - 1) :
         \/ \E t \in c.timers : t.id = j
         \/ j \in {c.rampIntervalRef, c.holdTimeoutRef, c.etaCleanup}

\* lines 193-195
clearRamp(c) ==
  IF c.rampIntervalRef # Null
  THEN [c EXCEPT !.timers = ClearTimer(@, c.rampIntervalRef),
                 !.rampIntervalRef = Null]
  ELSE c

\* lines 196-198
clearHold(c) ==
  IF c.holdTimeoutRef # Null
  THEN [c EXCEPT !.timers = ClearTimer(@, c.holdTimeoutRef),
                 !.holdTimeoutRef = Null]
  ELSE c

\* line 199
resetPM(c) ==
  [clearHold(clearRamp(c)) EXCEPT !.didStartHoldRef = FALSE, !.pm = "idle"]

\* lib/types: the actions Control sends
SetRainLevel(v) ==
  [type |-> "SET_RAIN_LEVEL", state |-> "-", name |-> "-", value |-> v]

TriggerState(st) ==
  [type |-> "TRIGGER_STATE", state |-> st, name |-> "-", value |-> Null]

Script(n) == [type |-> "SCRIPT", state |-> "-", name |-> n, value |-> Null]

\* the send effect with the threshold test taken on the rain of the render
\* before
SendEffect_Late(prev, cur, acc) ==
  IF cur.rain = prev.rain THEN acc
  ELSE LET a == [acc EXCEPT !.out = Append(@, SetRainLevel(cur.rain))]
           nowRaining == prev.rain >= RAIN_THRESHOLD
       IN  IF nowRaining # a.wasRainingRef
           THEN [a EXCEPT !.wasRainingRef = nowRaining,
                          !.out = Append(@, TriggerState(
                                    IF nowRaining THEN "RAIN" ELSE "NORMAL"))]
           ELSE a

\* lines 151-160: the send effect: SET_RAIN_LEVEL on every change of rain,
\* TRIGGER_STATE when rain crosses the threshold
SendEffect(prev, cur, acc) ==
  IF cur.rain = prev.rain THEN acc
  ELSE LET a == [acc EXCEPT !.out = Append(@, SetRainLevel(cur.rain))]
           nowRaining == cur.rain >= RAIN_THRESHOLD
       IN  IF nowRaining # a.wasRainingRef
           THEN [a EXCEPT !.wasRainingRef = nowRaining,
                          !.out = Append(@, TriggerState(
                                    IF nowRaining THEN "RAIN" ELSE "NORMAL"))]
           ELSE a

\* the hold effect not waiting for the ETA to be 0
HoldEffect_NoWait(prev, cur, acc) ==
  IF cur.pm = prev.pm /\ etaSec(cur) = etaSec(prev) THEN acc
  ELSE IF cur.pm # "waitingFlood" THEN acc
  ELSE IF acc.didStartHoldRef THEN acc
  ELSE LET a == clearHold([acc EXCEPT !.didStartHoldRef = TRUE,
                                      !.pm = "holding", !.rain = 100])
       IN  [a EXCEPT !.holdTimeoutRef = CtlFreshId(a),
                     !.timers = SetTimerAt(@, CtlFreshId(a), "hold", PM_HOLD_MS, 0)]

\* lines 218-243: waitingFlood -> holding once the ETA is 0
HoldEffect(prev, cur, acc) ==
  IF cur.pm = prev.pm /\ etaSec(cur) = etaSec(prev) THEN acc
  ELSE IF cur.pm # "waitingFlood" THEN acc
  ELSE IF etaSec(cur) = Infinity \/ etaSec(cur) > 0 THEN acc
  ELSE IF acc.didStartHoldRef THEN acc
  ELSE LET a == clearHold([acc EXCEPT !.didStartHoldRef = TRUE,
                                      !.pm = "holding", !.rain = 100])
       IN  [a EXCEPT !.holdTimeoutRef = CtlFreshId(a),
                     !.timers = SetTimerAt(@, CtlFreshId(a), "hold", PM_HOLD_MS, 0)]

\* the ETA toast without its one-shot flag
ToastEffect_NoLatch(prev, cur, acc) ==
  IF etaSec(cur) = etaSec(prev) THEN acc
  ELSE LET a == IF acc.etaCleanup # Null
                THEN [acc EXCEPT !.timers = ClearTimer(@, acc.etaCleanup),
                                 !.etaCleanup = Null]
                ELSE acc
       IN  IF timerRunning(etaSec(cur))
           THEN [a EXCEPT !.etaStartedRef = TRUE,
                          !.toastIdRef = @ + 1,
                          !.toasts = <<a.toastIdRef + 1>> \o @,
                          !.etaCleanup = CtlFreshId(a),
                          !.timers = SetTimerAt(@, CtlFreshId(a), "toast", CTL_TOAST_MS,
                                              a.toastIdRef + 1)]
           ELSE [a EXCEPT !.etaStartedRef = FALSE]

\* lines 249-271: the ETA toast.  The cleanup the last run returned runs
\* first; a run that enqueues a toast returns the cleanup that clears the
\* toast's timeout.
ToastEffect(prev, cur, acc) ==
  IF etaSec(cur) = etaSec(prev) THEN acc
  ELSE LET a == IF acc.etaCleanup # Null
                THEN [acc EXCEPT !.timers = ClearTimer(@, acc.etaCleanup),
                                 !.etaCleanup = Null]
                ELSE acc
       IN  IF timerRunning(etaSec(cur)) /\ ~a.etaStartedRef
           THEN [a EXCEPT !.etaStartedRef = TRUE,
                          !.toastIdRef = @ + 1,
                          !.toasts = <<a.toastIdRef + 1>> \o @,
                          !.etaCleanup = CtlFreshId(a),
                          !.timers = SetTimerAt(@, CtlFreshId(a), "toast", CTL_TOAST_MS,
                                              a.toastIdRef + 1)]
           ELSE IF ~timerRunning(etaSec(cur))
                THEN [a EXCEPT !.etaStartedRef = FALSE]
                ELSE a

\* one render of Control: the effects in declaration order
CtlRenderPass(prev, cur) ==
  LET a0 == {SendEffect(prev, cur, cur)}
      a1 == {HoldEffect(prev, cur, a) : a \in a0}
      a2 == {ToastEffect(prev, cur, a) : a \in a1}
  IN  CHOOSE a \in a2 : TRUE

\* render and run effects until no effect changes anything
RECURSIVE CtlSettle(_, _)
CtlSettle(prev, cur) ==
  CHOOSE r \in {IF nxt = cur THEN cur ELSE CtlSettle(cur, nxt) :
                  nxt \in {CtlRenderPass(prev, cur)}} : TRUE

\* an event of Control: the handler's writes h, then the renders
CtlEvent(h) ==
  \E c \in {CtlComp} : \E n \in {CtlSettle(c, h)} : CtlCommit(n)

\* lines 134-149: the physics interval fires: the level eases toward the
\* target of the rendered rain (its jitter, 0.001 m at most, moves the level
\* by less than a mm and is dropped) and one tick passes
CtlTick ==
  /\ \A t \in ctlTimers : t.left >= 0
  /\ UNCHANGED ctlInputs
  /\ CtlEvent([CtlComp EXCEPT
                 !.level = lerp(@, tLvl(ctlRain), ALPHA_LEVEL_PCT),
                 !.timers = {[t EXCEPT !.left = @ - CTL_TICK_MS] : t \in @}])

\* the ramp-up updater without Math.min
RampUpStep_NoClamp(c) ==
  LET next == c.rain + PM_UP_STEP
      a == IF next >= 100 THEN [clearRamp(c) EXCEPT !.pm = "waitingFlood"] ELSE c
  IN  [a EXCEPT !.rain = next]

\* lines 209-215: the ramp-up interval fires
RampUpStep(c) ==
  LET next == Min(100, c.rain + PM_UP_STEP)
      a == IF next >= 100 THEN [clearRamp(c) EXCEPT !.pm = "waitingFlood"] ELSE c
  IN  [a EXCEPT !.rain = next]

RampUpFire(t) ==
  /\ t \in ctlTimers
  /\ t.kind = "rampUp"
  /\ t.left <= 0
  /\ UNCHANGED ctlInputs
  /\ CtlEvent(RampUpStep([CtlComp EXCEPT
                 !.timers = (@ \ {t}) \cup {[t EXCEPT !.left = @ + PM_UP_MS]}]))

\* lines 227-242: the hold timeout fires
HoldFire(t) ==
  /\ t \in ctlTimers
  /\ t.kind = "hold"
  /\ t.left <= 0
  /\ UNCHANGED ctlInputs
  /\ CtlEvent(LET a == clearRamp([CtlComp EXCEPT !.timers = @ \ {t},
                                                 !.pm = "rampingDown"])
              IN  [a EXCEPT !.rampIntervalRef = CtlFreshId(a),
                            !.timers = SetTimerAt(@, CtlFreshId(a), "rampDown", PM_DOWN_MS, 0)])

\* lines 230-241: the ramp-down interval fires
RampDownStep(c) ==
  LET next == Max(0, c.rain - PM_DOWN_STEP)
      a == IF next <= 0
           THEN [clearRamp(c) EXCEPT !.didStartHoldRef = FALSE, !.pm = "idle",
                                     !.out = Append(@, Script("STOP"))]
           ELSE c
  IN  [a EXCEPT !.rain = next]

RampDownFire(t) ==
  /\ t \in ctlTimers
  /\ t.kind = "rampDown"
  /\ t.left <= 0
  /\ UNCHANGED ctlInputs
  /\ CtlEvent(RampDownStep([CtlComp EXCEPT
                 !.timers = (@ \ {t}) \cup {[t EXCEPT !.left = @ + PM_DOWN_MS]}]))

\* lines 265-267: a toast's timeout fires
CtlToastExpire(t) ==
  /\ t \in ctlTimers
  /\ t.kind = "toast"
  /\ t.left <= 0
  /\ UNCHANGED ctlInputs
  /\ CtlEvent([CtlComp EXCEPT !.toasts = FilterToast(@, t.arg),
                              !.timers = @ \ {t}])

\* the operator inputs a behaviour may make
MaxInputs == 2

\* the values the operator sets rain to: the three preset buttons (lines
\* 383-385), which are slider positions too (line 374)
RainInputs == {0, RAIN_THRESHOLD, 100}

\* lines 374, 383-385: the slider or a preset button sets rain
setRain(v) ==
  /\ ctlInputs < MaxInputs
  /\ ctlInputs' = ctlInputs + 1
  /\ CtlEvent([CtlComp EXCEPT !.rain = v])

\* the Demo Mode handler without resetPM
StartPM_NoReset(c) ==
  LET a == [c EXCEPT !.rain = 0, !.pm = "rampingUp",
                     !.out = Append(@, Script("PM_MODE"))]
  IN  [a EXCEPT !.rampIntervalRef = CtlFreshId(a),
                !.timers = SetTimerAt(@, CtlFreshId(a), "rampUp", PM_UP_MS, 0)]

\* lines 203-216: the Demo Mode button
StartPM(c) ==
  LET a == [resetPM(c) EXCEPT !.rain = 0, !.pm = "rampingUp",
                              !.out = Append(@, Script("PM_MODE"))]
  IN  [a EXCEPT !.rampIntervalRef = CtlFreshId(a),
                !.timers = SetTimerAt(@, CtlFreshId(a), "rampUp", PM_UP_MS, 0)]

startPMMode ==
  /\ ctlInputs < MaxInputs
  /\ ctlInputs' = ctlInputs + 1
  /\ CtlEvent(StartPM(CtlComp))

\* line 272, 399: the close button of a toast
ctlDismissToast(id) ==
  /\ ctlInputs < MaxInputs
  /\ ctlInputs' = ctlInputs + 1
  /\ \E i \in DOMAIN ctlToasts : ctlToasts[i] = id
  /\ CtlEvent([CtlComp EXCEPT !.toasts = FilterToast(@, id)])

\* the cells of Control after mount (lines 97-109, 188-191, 246-248)
CtlInit ==
  /\ ctlRain = 0
  /\ level = CTL_BASE_LEVEL
  /\ pm = "idle"
  /\ rampIntervalRef = Null
  /\ holdTimeoutRef = Null
  /\ didStartHoldRef = FALSE
  /\ ctlToasts = <<>>
  /\ toastIdRef = 0
  /\ etaStartedRef = FALSE
  /\ etaCleanup = Null
  /\ ctlTimers = {}
  /\ ctlInputs = 0
  /\ wasRainingRef = FALSE
  /\ ctlOut = <<>>

(***************************************************************************)
(* The transport (utils/sensorBus, river-ov.tsx lines 200-306)             *)
(***************************************************************************)
\* the browsing contexts of the origin: the control surface, which
\* publishes, and the two overlay pages, which subscribe
CTX_CONTROL == 1

CTX_RIVER_OV == 2

CTX_SKY_OV == 3

Contexts == {CTX_CONTROL, CTX_RIVER_OV, CTX_SKY_OV}

\* the subscribers: the hook of the river overlay (river-ov.tsx line 30) and
\* the hook of the sky overlay (line 57 of the sky overlay)
Subs == {"riverOv", "skyOv"}

SubCtx == [s \in Subs |-> IF s = "riverOv" THEN CTX_RIVER_OV ELSE CTX_SKY_OV]

SubKind == [s \in Subs |-> IF s = "riverOv" THEN "river" ELSE "sky"]

Kinds == {"river", "sky"}

\* lines 220 and 270: the key of a kind
KeyOf(k) == IF k = "river" THEN "fs_river_sensors" ELSE "fs_sky"

Keys == {KeyOf(k) : k \in Kinds}

\* localStorage.getItem of a key never set; the newValue of a StorageEvent
\* constructed without one
NoItem == <<>>

\* the payloads a publisher passes: RiverSensors and SkyData objects
RiverPayloads == {1, 2}

SkyPayloads == {3, 4}

\* JSON.stringify of {t, data}: the string, as the tuple of what it spells
JSONstringify(o) == <<"{t,data}", o.t, o.data>>

\* JSON.parse of such a string
JSONparse(str) == [t |-> str[2], data |-> str[3]]

\* lines 203-213 without the try/catch of lines 206-210
getChannel_NoCatch(c) ==
  IF channel[c] \/ bcAvailable[c] THEN [ch |-> TRUE, threw |-> FALSE]
  ELSE [ch |-> FALSE, threw |-> TRUE]

\* lines 203-213: the channel of context c, constructed at the first call;
\* ch is FALSE for null, threw says that the constructor's exception escaped
getChannel(c) ==
  IF channel[c] THEN [ch |-> TRUE, threw |-> FALSE]
  ELSE IF bcAvailable[c] THEN [ch |-> TRUE, threw |-> FALSE]
  ELSE [ch |-> FALSE, threw |-> FALSE]

\* lines 227-229 without the test of the kind
onMsg_AnyKind(k, m) == IF m.data # Null THEN m.data ELSE Null

\* lines 227-229 and 278-280: the message listener of a subscriber of kind
\* k; the payload cb is invoked with, or Null when cb is not invoked
onMsg(k, m) == IF m.kind = k /\ m.data # Null THEN m.data ELSE Null

\* the storage listener taking the events of every key
onStorage_AnyKey(k, e) ==
  IF e.newValue # NoItem
  THEN LET parsed == JSONparse(e.newValue)
       IN  IF parsed.data # Null THEN parsed.data ELSE Null
  ELSE Null

\* lines 242-249 and 292-299: the storage listener of a subscriber of kind k
onStorage(k, e) ==
  IF e.key = KeyOf(k) /\ e.newValue # NoItem
  THEN LET parsed == JSONparse(e.newValue)
       IN  IF parsed.data # Null THEN parsed.data ELSE Null
  ELSE Null

\* lines 233-239 with the snapshot left unread
readCache_Skip(k) == Null

\* lines 233-239 and 284-290: the last snapshot of kind k in localStorage
readCache(k) ==
  LET raw == localStorage[KeyOf(k)]
  IN  IF raw # NoItem
      THEN LET parsed == JSONparse(raw)
           IN  IF parsed.data # Null THEN parsed.data ELSE Null
      ELSE Null

\* cb(p) of subscriber s, unless p is Null
Invoke(rcv, s, p) == IF p # Null THEN [rcv EXCEPT ![s] = Append(@, p)] ELSE rcv

\* the calls of publish and of send a behaviour may make
MaxCalls == 3

Publishes == Len(published["river"]) + Len(published["sky"])

\* what an exception escaping a call of the transport leaves
Throw ==
  /\ thrown' = TRUE
  /\ UNCHANGED <<bcAvailable, channel, localStorage, now, subs, msgTasks,
                 storageTasks, received, published>>

\* lines 215-223 and 266-273: publish a payload of kind k from the control
\* surface.  The message goes to the channel objects of the name the other
\* contexts hold; setItem queues a storage event for every other window
\* when the stored string changes; the event dispatched at line 221 / 271
\* has a key and no newValue and reaches the window's own listeners at once.
\* The clock has moved on by the next publish.
publish(k, data) ==
  /\ Publishes + sent < MaxCalls
  /\ LET g == getChannel(CTX_CONTROL)
         item == JSONstringify([t |-> now, data |-> data])
         changed == localStorage[KeyOf(k)] # item
         own == [key |-> KeyOf(k), newValue |-> NoItem]
     IN  IF g.threw THEN Throw
         ELSE /\ channel' = [channel EXCEPT ![CTX_CONTROL] = g.ch]
              /\ msgTasks' =
                   [c \in Contexts |->
                      IF g.ch /\ c # CTX_CONTROL /\ channel[c]
                      THEN Append(msgTasks[c], [kind |-> k, data |-> data])
                      ELSE msgTasks[c]]
              /\ localStorage' = [localStorage EXCEPT ![KeyOf(k)] = item]
              /\ storageTasks' =
                   [c \in Contexts |->
                      IF changed /\ c # CTX_CONTROL
                      THEN Append(storageTasks[c],
                                  [key |-> KeyOf(k), newValue |-> item])
                      ELSE storageTasks[c]]
              /\ received' =
                   [s \in Subs |->
                      IF SubCtx[s] = CTX_CONTROL /\ subs[s].stoL
                      THEN Invoke(received, s, onStorage(SubKind[s], own))[s]
                      ELSE received[s]]
              /\ now' = now + 1
              /\ published' = [published EXCEPT ![k] = Append(@, data)]
              /\ UNCHANGED <<bcAvailable, subs, thrown>>
  /\ UNCHANGED <<busTasks, displayOpen, displayState, displaySrc, sent>>
  /\ UNCHANGED <<liteVars, restarts, ctlVars, ovVars, mountVars>>

\* lines 215-223
publishSensors(data) == publish("river", data)

\* lines 266-273
publishSky(data) == publish("sky", data)

\* lines 225-251 and 276-301: subscriber s subscribes
subscribe(s) ==
  /\ subs[s].st = "none"
  /\ LET g == getChannel(SubCtx[s])
     IN  IF g.threw THEN Throw
         ELSE /\ channel' = [channel EXCEPT ![SubCtx[s]] = g.ch]
              /\ received' = Invoke(received, s, readCache(SubKind[s]))
              /\ subs' = [subs EXCEPT ![s] =
                            [st |-> "on", msgL |-> g.ch, stoL |-> TRUE,
                             subAt |-> Len(published[SubKind[s]]),
                             offAt |-> 0]]
              /\ UNCHANGED <<bcAvailable, localStorage, now, msgTasks,
                             storageTasks, thrown, published>>
  /\ UNCHANGED <<busTasks, displayOpen, displayState, displaySrc, sent>>
  /\ UNCHANGED <<liteVars, restarts, ctlVars, ovVars, mountVars>>

\* lines 225-251: the river overlay's hook subscribes
addSensorsListener == subscribe("riverOv")

\* lines 276-301: the sky overlay's hook subscribes
addSkyListener == subscribe("skyOv")

\* lines 252-255 with the storage listener left attached
Unsubscribed_KeepStorage(r, n) ==
  [r EXCEPT !.st = "off", !.msgL = FALSE, !.offAt = n]

\* lines 252-255 and 302-305: the listeners after the returned function ran
Unsubscribed(r, n) ==
  [r EXCEPT !.st = "off", !.msgL = FALSE, !.stoL = FALSE, !.offAt = n]

\* lines 252-255 and 302-305: subscriber s calls the function subscribe
\* returned
unsubscribe(s) ==
  /\ subs[s].st = "on"
  /\ subs' = [subs EXCEPT ![s] =
                Unsubscribed(@, Len(published[SubKind[s]]))]
  /\ UNCHANGED <<bcAvailable, channel, localStorage, now, msgTasks,
                 storageTasks, received, thrown, published>>
  /\ UNCHANGED <<busTasks, displayOpen, displayState, displaySrc, sent>>
  /\ UNCHANGED <<liteVars, restarts, ctlVars, ovVars, mountVars>>

\* the message event at the head of context c's queue is dispatched to the
\* message listeners attached to c's channel
DeliverMessage(c) ==
  /\ msgTasks[c] # <<>>
  /\ msgTasks' = [msgTasks EXCEPT ![c] = Tail(@)]
  /\ received' =
       [s \in Subs |->
          IF SubCtx[s] = c /\ subs[s].msgL
          THEN Invoke(received, s, onMsg(SubKind[s], Head(msgTasks[c])))[s]
          ELSE received[s]]
  /\ UNCHANGED <<bcAvailable, channel, localStorage, now, subs, storageTasks,
                 thrown, published>>
  /\ UNCHANGED <<busTasks, displayOpen, displayState, displaySrc, sent>>
  /\ UNCHANGED <<liteVars, restarts, ctlVars, ovVars, mountVars>>

\* the storage event at the head of context c's queue is dispatched to the
\* storage listeners attached to c's window
DeliverStorage(c) ==
  /\ storageTasks[c] # <<>>
  /\ storageTasks' = [storageTasks EXCEPT ![c] = Tail(@)]
  /\ received' =
       [s \in Subs |->
          IF SubCtx[s] = c /\ subs[s].stoL
          THEN Invoke(received, s,
                      onStorage(SubKind[s], Head(storageTasks[c])))[s]
          ELSE received[s]]
  /\ UNCHANGED <<bcAvailable, channel, localStorage, now, subs, msgTasks,
                 thrown, published>>
  /\ UNCHANGED <<busTasks, displayOpen, displayState, displaySrc, sent>>
  /\ UNCHANGED <<liteVars, restarts, ctlVars, ovVars, mountVars>>

(***************************************************************************)
(* The action bus (lib/bus) and the video displays (sky.tsx, river.tsx)    *)
(***************************************************************************)
\* lib/types: FloodAction, by type and, for TRIGGER_STATE, state
FloodActions ==
  {[type |-> "SET_RAIN_LEVEL", state |-> "-"],
   [type |-> "TRIGGER_STATE", state |-> "NORMAL"],
   [type |-> "TRIGGER_STATE", state |-> "RAIN"],
   [type |-> "SCRIPT", state |-> "-"]}

\* sky.tsx lines 5-6, river.tsx lines 5-6: the video of a display state
VideoOf(d, st) ==
  IF d = "sky" THEN (IF st = "RAIN" THEN "sky-rain.mp4" ELSE "sky-sunny.mp4")
  ELSE (IF st = "RAIN" THEN "river-flood.mp4" ELSE "river-normal.mp4")

\* sky.tsx / river.tsx lines 22-33: bus.onmessage of display d, on the
\* display's state and video cur
onmessage(d, cur, a) ==
  IF a.type = "TRIGGER_STATE"
  THEN IF cur.src = VideoOf(d, a.state)
       THEN [state |-> a.state, src |-> cur.src]
       ELSE [state |-> a.state, src |-> VideoOf(d, a.state)]
  ELSE cur

\* lib/bus lines 9-13, called at control.tsx lines 154, 158, 207 and 237: a
\* channel is opened, the action posted to the buses open at that moment,
\* and the channel closed
send(a) ==
  /\ Publishes + sent < MaxCalls
  /\ sent' = sent + 1
  /\ busTasks' = [d \in Displays |->
                    IF displayOpen[d] THEN Append(busTasks[d], a)
                    ELSE busTasks[d]]
  /\ UNCHANGED <<displayOpen, displayState, displaySrc>>
  /\ UNCHANGED <<bcAvailable, channel, localStorage, now, subs, msgTasks,
                 storageTasks, received, thrown, published>>
  /\ UNCHANGED <<liteVars, restarts, ctlVars, ovVars, mountVars>>

\* the message event at the head of display d's queue is dispatched; a
\* closed bus drops it
DisplayReceive(d) ==
  /\ busTasks[d] # <<>>
  /\ busTasks' = [busTasks EXCEPT ![d] = Tail(@)]
  /\ LET cur == [state |-> displayState[d], src |-> displaySrc[d]]
         n == IF displayOpen[d] THEN onmessage(d, cur, Head(busTasks[d]))
              ELSE cur
     IN  /\ displayState' = [displayState EXCEPT ![d] = n.state]
         /\ displaySrc' = [displaySrc EXCEPT ![d] = n.src]
  /\ UNCHANGED <<displayOpen, sent>>
  /\ UNCHANGED <<bcAvailable, channel, localStorage, now, subs, msgTasks,
                 storageTasks, received, thrown, published>>
  /\ UNCHANGED <<liteVars, restarts, ctlVars, ovVars, mountVars>>

\* sky.tsx / river.tsx line 34: the display unmounts and closes its bus
DisplayUnmount(d) ==
  /\ displayOpen[d]
  /\ displayOpen' = [displayOpen EXCEPT ![d] = FALSE]
  /\ UNCHANGED <<busTasks, displayState, displaySrc, sent>>
  /\ UNCHANGED <<bcAvailable, channel, localStorage, now, subs, msgTasks,
                 storageTasks, received, thrown, published>>
  /\ UNCHANGED <<liteVars, restarts, ctlVars, ovVars, mountVars>>

\* sky.tsx / river.tsx lines 10-21: the display page is opened: it shows
\* its NORMAL video and opens its bus
DisplayMount(d) ==
  /\ ~displayOpen[d]
  /\ displayOpen' = [displayOpen EXCEPT ![d] = TRUE]
  /\ displayState' = [displayState EXCEPT ![d] = "NORMAL"]
  /\ displaySrc' = [displaySrc EXCEPT ![d] = VideoOf(d, "NORMAL")]
  /\ busTasks' = [busTasks EXCEPT ![d] = <<>>]
  /\ UNCHANGED sent
  /\ UNCHANGED <<bcAvailable, channel, localStorage, now, subs, msgTasks,
                 storageTasks, received, thrown, published>>
  /\ UNCHANGED <<liteVars, restarts, ctlVars, ovVars, mountVars>>

\* the transport before any call (line 201) and the displays after mount
\* (sky.tsx / river.tsx lines 10-21)
BusInit ==
  /\ channel = [c \in Contexts |-> FALSE]
  /\ localStorage = [key \in Keys |-> NoItem]
  /\ now = 1
  /\ subs = [s \in Subs |->
               [st |-> "none", msgL |-> FALSE, stoL |-> FALSE, subAt |-> 0,
                offAt |-> 0]]
  /\ msgTasks = [c \in Contexts |-> <<>>]
  /\ storageTasks = [c \in Contexts |-> <<>>]
  /\ received = [s \in Subs |-> <<>>]
  /\ thrown = FALSE
  /\ published = [k \in Kinds |-> <<>>]
  /\ busTasks = [d \in Displays |-> <<>>]
  /\ displayState = [d \in Displays |-> "NORMAL"]
  /\ displaySrc = [d \in Displays |-> VideoOf(d, "NORMAL")]
  /\ sent = 0

(***************************************************************************)
(* The overlay pages: the sky overlay (normalizeSky,                       *)
(* useSkyFromBusWithDemo) and the river overlay (river-ov.tsx lines 18-50) *)
(***************************************************************************)
\* JavaScript values of a snapshot's field: a finite number (v, in tenths
\* for the sky overlay and in hundredths for the river overlay), NaN,
\* Infinity, undefined (the field is missing), null and a string s
Num(n) == [t |-> "number", v |-> n, s |-> ""]

NaN == [t |-> "NaN", v |-> 0, s |-> ""]

JsInfinity == [t |-> "Infinity", v |-> 0, s |-> ""]

Undefined == [t |-> "undefined", v |-> 0, s |-> ""]

JsNull == [t |-> "null", v |-> 0, s |-> ""]

Str(x) == [t |-> "string", v |-> 0, s |-> x]

\* Number(x); the strings of the model spell no number
Number(x) ==
  IF x.t \in {"number", "Infinity"} THEN x
  ELSE IF x.t = "null" THEN Num(0)
  ELSE NaN

\* Number.isFinite(x)
IsFinite(x) == x.t = "number"

\* Math.round and Math.floor of a number in tenths
MathRound(n) == ((n + 5) \div 10) * 10

MathFloor(n) == (n \div 10) * 10

\* lines 31-39 of the sky overlay: normalizeSky
normalizeSky(input, prev) ==
  LET pct == Number(input.floodLikelihoodPct)
      eta == Number(input.etaSeconds)
  IN  [floodLikelihoodPct |->
         IF IsFinite(pct) THEN Num(Min(1000, Max(0, MathRound(pct.v))))
         ELSE prev.floodLikelihoodPct,
       etaSeconds |->
         IF IsFinite(eta) THEN Num(Max(0, MathFloor(eta.v)))
         ELSE prev.etaSeconds,
       status |-> IF input.status.t = "string" THEN input.status
                  ELSE prev.status]

\* the field values of the snapshots the sky overlay is given: in range,
\* fractional, out of range, not finite, missing
SkyPctValues == {Num(425), Num(0 - 50), Num(1500), NaN, Undefined, JsNull}

SkyEtaValues == {Num(3000), Num(425), Num(0 - 30), JsInfinity, Undefined}

SkyStatusValues == {Str("DANGER"), Undefined}

SkyInputs ==
  [floodLikelihoodPct : SkyPctValues, etaSeconds : SkyEtaValues,
   status : SkyStatusValues]

\* the snapshots a behaviour delivers to each overlay, and the firings of
\* the drift intervals
MaxSnapshots == 2

MaxDrifts == 3

\* (Math.random() - 0.5) at its ends and its middle
DriftDraws == {0 - 1, 0, 1}

OvFrame == UNCHANGED <<liteVars, restarts, ctlVars, busVars, mountVars>>

\* lines 57-60 of the sky overlay: the callback given to addSkyListener
SkyIncoming(input) ==
  /\ ovDelivered.sky < MaxSnapshots
  /\ hasLiveRef' = TRUE
  /\ skyD' = normalizeSky(input, skyD)
  /\ ovDelivered' = [ovDelivered EXCEPT !.sky = @ + 1]
  /\ ovLast' = [ovLast EXCEPT !.sky = input]
  /\ UNCHANGED <<riverD, ovDrifts>>
  /\ OvFrame

\* lines 62-68 of the sky overlay: the demo interval fires; the draw d
\* moves the likelihood by d, within 5..70
SkyDrift(d) ==
  /\ ovDrifts < MaxDrifts
  /\ ovDrifts' = ovDrifts + 1
  /\ skyD' = IF hasLiveRef THEN skyD
             ELSE [skyD EXCEPT !.floodLikelihoodPct =
                     IF @.t = "number"
                     THEN Num(MathRound(Max(50, Min(700, @.v + 10 * d))))
                     ELSE NaN]
  /\ UNCHANGED <<hasLiveRef, riverD, ovDelivered, ovLast>>
  /\ OvFrame

\* the snapshots the river overlay is given, in hundredths: two complete
\* ones, one with only the water level, one whose flow is NaN
RiverComplete(n) ==
  [waterLevelM |-> Num(200 + n), flowRateMs |-> Num(100 + n),
   rainfallMmHr |-> Num(1000 + 100 * n), tempC |-> Num(2700),
   humidityPct |-> Num(8000), pressureHpa |-> Num(100400)]

RiverInputs ==
  {RiverComplete(0), RiverComplete(50),
   [RiverComplete(0) EXCEPT !.flowRateMs = Undefined,
                            !.rainfallMmHr = Undefined, !.tempC = Undefined,
                            !.humidityPct = Undefined,
                            !.pressureHpa = Undefined],
   [RiverComplete(0) EXCEPT !.flowRateMs = NaN]}

\* river-ov.tsx line 30: the callback given to addSensorsListener
RiverIncoming(input) ==
  /\ ovDelivered.river < MaxSnapshots
  /\ riverD' = input
  /\ ovDelivered' = [ovDelivered EXCEPT !.river = @ + 1]
  /\ ovLast' = [ovLast EXCEPT !.river = input]
  /\ UNCHANGED <<skyD, hasLiveRef, ovDrifts>>
  /\ OvFrame

\* x + n of a field and a number: NaN unless the field is a number
Plus(x, n) == IF x.t = "number" THEN Num(x.v + n) ELSE NaN

\* f applied to a field: NaN stays NaN
OnNumber(x, n) == IF x.t = "number" THEN Num(n) ELSE NaN

\* river-ov.tsx lines 32-43: the demo interval fires; the six draws of one
\* firing are taken equal, d, and each field moves by its step times d
RiverDrift(d) ==
  /\ ovDrifts < MaxDrifts
  /\ ovDrifts' = ovDrifts + 1
  /\ riverD' =
       [waterLevelM |-> Plus(riverD.waterLevelM, d),
        flowRateMs |-> Plus(riverD.flowRateMs, 2 * d),
        rainfallMmHr |->
          OnNumber(riverD.rainfallMmHr,
                   Max(0, RoundDiv(riverD.rainfallMmHr.v + 25 * d, 10) * 10)),
        tempC |-> Plus(riverD.tempC, 10 * d),
        humidityPct |->
          OnNumber(riverD.humidityPct,
                   Min(10000, Max(0, riverD.humidityPct.v + 100 * d))),
        pressureHpa |->
          OnNumber(riverD.pressureHpa,
                   RoundDiv(riverD.pressureHpa.v + 75 * d, 100) * 100)]
  /\ UNCHANGED <<skyD, hasLiveRef, ovDelivered, ovLast>>
  /\ OvFrame

\* the hooks' initial state (line 53 of the sky overlay, river-ov.tsx lines
\* 19-26); no snapshot has been delivered
OvInit ==
  /\ skyD = [floodLikelihoodPct |-> Num(100), etaSeconds |-> Num(6000),
             status |-> Str("NORMAL")]
  /\ hasLiveRef = FALSE
  /\ riverD = [waterLevelM |-> Num(162), flowRateMs |-> Num(82),
               rainfallMmHr |-> Num(180), tempC |-> Num(2860),
               humidityPct |-> Num(7400), pressureHpa |-> Num(100600)]
  /\ ovDelivered = [sky |-> 0, river |-> 0]
  /\ ovLast = [sky |-> Undefined, river |-> Undefined]
  /\ ovDrifts = 0

(***************************************************************************)
(* Teardown of the control surfaces                                        *)
(***************************************************************************)
\* control-lite.tsx lines 408-419: the unmount cleanup clears the countdown
\* interval and the peak-hold timeout its refs hold
UnmountCleanup(c) ==
  LET a == IF c.countdownTimerRef # Null
           THEN [c EXCEPT !.timers = ClearTimer(@, c.countdownTimerRef),
                          !.countdownTimerRef = Null]
           ELSE c
  IN  IF a.peakHoldTimerRef # Null
      THEN [a EXCEPT !.timers = ClearTimer(@, a.peakHoldTimerRef),
                     !.peakHoldTimerRef = Null]
      ELSE a

\* FloodDemoControl unmounts: the cleanups of its effects run (lines 298-300,
\* 375-377, 408-419); the tick interval is cleared with them, so that no
\* event of the component follows
unmountLite ==
  /\ liteMounted
  /\ liteMounted' = FALSE
  /\ CommitCells(UnmountCleanup(Comp))
  /\ UNCHANGED <<restarts, ctlVars, busVars, ovVars, ctlMounted>>

\* control.tsx lines 148, 201 and 268: the cleanups that run when Control
\* unmounts clear the ramp interval, the hold timeout and the timeout of
\* the toast the toast effect enqueued last
CtlUnmountCleanup(c) ==
  LET a == clearHold(clearRamp(c))
  IN  IF a.etaCleanup # Null
      THEN [a EXCEPT !.timers = ClearTimer(@, a.etaCleanup),
                     !.etaCleanup = Null]
      ELSE a

\* Control unmounts; the physics interval is cleared with the rest
unmountCtl ==
  /\ ctlMounted
  /\ ctlMounted' = FALSE
  /\ CtlCommitCells(CtlUnmountCleanup(CtlComp))
  /\ UNCHANGED <<liteVars, restarts, busVars, ovVars, liteMounted, ctlInputs>>

\* the calls of onStartDemo while not idle that a behaviour may make
MaxRestarts == 1

\* lines 422-430: the handler called while the phase is not idle (the call
\* the button's disabled attribute keeps the user from making)
restartDemo ==
  /\ liteMounted
  /\ phase # "idle"
  /\ restarts < MaxRestarts
  /\ restarts' = restarts + 1
  /\ \E c \in {Comp} :
       \E h \in {StartDemo(c)} :
         \E n \in {Settle(c, h)} : CommitCells(n) /\ UNCHANGED <<ctlVars, busVars, ovVars, mountVars>>

(***************************************************************************)
(* The specification                                                       *)
(***************************************************************************)
\* the cells after mount: the useState / useRef initial values, which the
\* mount effects leave as they are
LiteInit ==
  /\ phase = "idle"
  /\ rain = 0
  /\ S = BASE
  /\ lk = 0
  /\ lkRef = 0
  /\ stage = "normal"
  /\ etaSeconds = Null
  /\ etaNow = FALSE
  /\ countdownTimerRef = Null
  /\ peakHoldTimerRef = Null
  /\ dangerAlertedRef = FALSE
  /\ rampUpSinceRef = Null
  /\ dangerSinceRef = Null
  /\ toasts = <<>>
  /\ timers = {}

\* every surface after construction, in a runtime with BroadcastChannel
Init ==
  /\ LiteInit
  /\ restarts = 0
  /\ CtlInit
  /\ BusInit
  /\ displayOpen = [d \in Displays |-> FALSE]
  /\ bcAvailable = [c \in Contexts |-> TRUE]
  /\ OvInit
  /\ liteMounted = TRUE
  /\ ctlMounted = TRUE

Next ==
  \/ \E d \in JitterDraws : Tick(d)
  \/ \E t \in timers : CountdownFire(t)
  \/ \E t \in timers : PeakHoldFire(t)
  \/ \E t \in timers : ToastExpire(t)
  \/ onStartDemo

Spec == Init /\ [][Next]_vars

\* the draw Math.random() = 0.5: no jitter
MidDraw == {0}

\* control-lite with onStartDemo callable in every phase, Math.random() at
\* its middle value
RestartNext ==
  \/ \E d \in MidDraw : Tick(d)
  \/ \E t \in timers : CountdownFire(t)
  \/ \E t \in timers : PeakHoldFire(t)
  \/ \E t \in timers : ToastExpire(t)
  \/ onStartDemo
  \/ restartDemo

RestartSpec == Init /\ [][RestartNext]_vars

\* the manual control surface.  CtlToastExpire is no disjunct: a toast's
\* timeout is armed only while the ETA runs, the level then moves at every
\* physics tick, and the toast effect's cleanup clears the timeout at the
\* first change of etaSec, 8 s before it is due.
ControlNext ==
  \/ CtlTick
  \/ \E t \in ctlTimers : RampUpFire(t)
  \/ \E t \in ctlTimers : HoldFire(t)
  \/ \E t \in ctlTimers : RampDownFire(t)
  \/ \E v \in RainInputs : setRain(v)
  \/ startPMMode
  \/ \E id \in {ctlToasts[i] : i \in DOMAIN ctlToasts} : ctlDismissToast(id)

ControlSpec == Init /\ [][ControlNext]_vars

\* Control with Demo Mode pressed once and no other operator input; the
\* physics interval and the armed timers keep firing
ScriptNext ==
  \/ CtlTick
  \/ \E t \in ctlTimers : RampUpFire(t)
  \/ \E t \in ctlTimers : HoldFire(t)
  \/ \E t \in ctlTimers : RampDownFire(t)
  \/ (ctlInputs = 0 /\ startPMMode)

ScriptSpec == Init /\ [][ScriptNext]_vars /\ WF_vars(ScriptNext)

\* Control with the operator moving rain, and the display pages, opened
\* and closed at any time
DisplayNext ==
  \/ CtlTick
  \/ \E v \in RainInputs : setRain(v)
  \/ \E d \in Displays : DisplayMount(d)
  \/ \E d \in Displays : DisplayReceive(d)
  \/ \E d \in Displays : DisplayUnmount(d)

DisplaySpec == Init /\ [][DisplayNext]_vars

\* the transport and the displays; the browser the contexts run in may lack
\* BroadcastChannel
TransportInit ==
  /\ LiteInit
  /\ restarts = 0
  /\ CtlInit
  /\ BusInit
  /\ displayOpen = [d \in Displays |-> TRUE]
  /\ \E b \in BOOLEAN : bcAvailable = [c \in Contexts |-> b]
  /\ OvInit
  /\ liteMounted = TRUE
  /\ ctlMounted = TRUE

TransportNext ==
  \/ \E data \in RiverPayloads : publishSensors(data)
  \/ \E data \in SkyPayloads : publishSky(data)
  \/ addSensorsListener
  \/ addSkyListener
  \/ \E s \in Subs : unsubscribe(s)
  \/ \E c \in Contexts : DeliverMessage(c)
  \/ \E c \in Contexts : DeliverStorage(c)
  \/ \E a \in FloodActions : send(a)
  \/ \E d \in Displays : DisplayReceive(d)

TransportSpec == TransportInit /\ [][TransportNext]_vars

\* the two overlay pages
OverlayNext ==
  \/ \E input \in SkyInputs : SkyIncoming(input)
  \/ \E d \in DriftDraws : SkyDrift(d)
  \/ \E input \in RiverInputs : RiverIncoming(input)
  \/ \E d \in DriftDraws : RiverDrift(d)

OverlaySpec == Init /\ [][OverlayNext]_vars

\* one control surface, the page that is open, up to its teardown;
\* control-lite with Math.random() at its middle value
TeardownInit ==
  /\ LiteInit
  /\ restarts = 0
  /\ CtlInit
  /\ BusInit
  /\ displayOpen = [d \in Displays |-> FALSE]
  /\ bcAvailable = [c \in Contexts |-> TRUE]
  /\ OvInit
  /\ \E open \in {"control-lite", "control"} :
       /\ liteMounted = (open = "control-lite")
       /\ ctlMounted = (open = "control")

TeardownNext ==
  \/ \E d \in MidDraw : Tick(d)
  \/ \E t \in timers : CountdownFire(t)
  \/ \E t \in timers : PeakHoldFire(t)
  \/ \E t \in timers : ToastExpire(t)
  \/ onStartDemo
  \/ unmountLite
  \/ CtlTick
  \/ \E t \in ctlTimers : RampUpFire(t)
  \/ \E t \in ctlTimers : HoldFire(t)
  \/ \E t \in ctlTimers : RampDownFire(t)
  \/ \E v \in RainInputs : setRain(v)
  \/ startPMMode
  \/ \E id \in {ctlToasts[i] : i \in DOMAIN ctlToasts} : ctlDismissToast(id)
  \/ unmountCtl

TeardownSpec == TeardownInit /\ [][TeardownNext]_vars

(***************************************************************************)
(* Derived UI bits (lines 433-445)                                         *)
(***************************************************************************)
statusLabel ==
  IF phase = "rampDown" /\ stage = "subsiding" THEN "SUBSIDING"
  ELSE stageToStatusLabel[stage]

\* the countdown intervals that are armed
CountdownTimers == {t \in timers : t.kind = "countdown"}

\* the peak-hold timeouts that are armed
PeakHoldTimers == {t \in timers : t.kind = "peakHold"}

\* the tick interval and the armed timers keep firing: a step of the
\* component is always possible (the tick, or a timer that is due) and is
\* eventually taken
FairSpec == Spec /\ WF_vars(Next)

(***************************************************************************)
(* Properties                                                              *)
(***************************************************************************)
\* the likelihood bounds of the countdown window and of "Now", in lk's unit
InWindow(l) == l >= COUNTDOWN_START_PCT * LK_UNIT /\ l < PEAK_NOW_PCT * LK_UNIT

AtNow(l) == l >= PEAK_NOW_PCT * LK_UNIT

PhaseEdgeSet ==
  {<<"idle", "rampUp">>, <<"rampUp", "peakHold">>, <<"peakHold", "rampDown">>,
   <<"rampDown", "idle">>}

\* C1: the phase changes only along idle -> rampUp -> peakHold -> rampDown
\* -> idle, one edge per step (none skipped), and the edge idle -> rampUp is
\* taken by the Start handler only.
C1_PhaseOrder ==
  [][phase' # phase =>
       /\ <<phase, phase'>> \in PhaseEdgeSet
       /\ (phase = "idle" => onStartDemo)]_vars

\* a demo that has come through rampUp and peakHold into rampDown
C1_Witness == phase = "rampDown" /\ stage = "subsiding" /\ rampUpSinceRef # Null

\* C2: while the tick interval and the timers keep firing, a demo that is
\* not idle eventually is idle again: no phase other than idle can hold
\* forever.
C2_ReturnsToIdle == (phase # "idle") ~> (phase = "idle")

\* a demo that was started and has come back to idle with every timer spent
C2_Witness == phase = "idle" /\ rampUpSinceRef # Null /\ timers = {}

\* C3: a step from rampDown to idle ends with rain at 0, the sensors within
\* tolerance of baseline, no ETA ("Now" off, no countdown value) and the
\* DANGER one-shot flag cleared; and rain is 0 whenever the phase is idle.
C3_IdleEntry ==
  /\ (phase = "idle" => rain = 0)
  /\ [][/\ (phase = "rampDown" /\ phase' = "idle") =>
             /\ rain' = 0
             /\ close(S')
             /\ etaSeconds' = Null
             /\ ~etaNow'
             /\ ~dangerAlertedRef'
        /\ (phase' = "idle" => rain' = 0)]_vars

\* idle entered from rampDown, the one-shot flag of the demo's alert cleared
C3_Witness ==
  /\ phase = "idle"
  /\ rampUpSinceRef # Null
  /\ rain = 0
  /\ close(S)
  /\ ~dangerAlertedRef

\* the likelihoods 0..100%, in lk's unit
LkRange == 0..(100 * LK_UNIT)

\* C4: every update of the smoothed likelihood moves it by at most MAX_STEP
\* points: for every previous value and raw score of the updater, and in
\* every step of the component.
C4_StepClamp ==
  /\ \A p \in LkRange : \A r \in LkRange :
       Abs(Smooth(p, r) - p) <= MAX_STEP * LK_UNIT
  /\ [][Abs(lk' - lk) <= MAX_STEP * LK_UNIT]_vars

\* an update has been made and the raw score is so far above the smoothed
\* one that the exponential step alone would exceed MAX_STEP
C4_Witness ==
  /\ lk > 0
  /\ EMA_ALPHA_PCT * (rawLikelihood(S) - lk) > 100 * MAX_STEP * LK_UNIT

\* the stated buckets: the labels whose range holds the rounded likelihood p
StatedBuckets(p) ==
  {b \in {"NORMAL", "WATCH", "WARNING", "DANGER"} :
     \/ b = "NORMAL" /\ p < 40
     \/ b = "WATCH" /\ p >= 40 /\ p <= 69
     \/ b = "WARNING" /\ p >= 70 /\ p <= 79
     \/ b = "DANGER" /\ p >= 80}

\* C5: the status is SUBSIDING exactly when the phase is rampDown and some
\* tracked sensor is outside its baseline tolerance, and otherwise the one
\* bucket of the rounded likelihood; every integer 0..100 is in exactly one
\* bucket, which is the one the stage logic computes.
C5_StatusFunction ==
  /\ \A p \in 0..100 : StatedBuckets(p) = {stageToStatusLabel[Bucket(p)]}
  /\ statusLabel =
       IF phase = "rampDown" /\ ~close(S) THEN "SUBSIDING"
       ELSE stageToStatusLabel[Bucket(Round(lk))]
  /\ (statusLabel = "SUBSIDING" => phase = "rampDown")

\* SUBSIDING reported while the rounded likelihood is still in DANGER range
C5_Witness ==
  /\ phase = "rampDown"
  /\ ~close(S)
  /\ Round(lk) >= 80
  /\ statusLabel = "SUBSIDING"

\* C6: a countdown value appears only as COUNTDOWN_START_S, with the
\* likelihood in the window and ETA not "Now"; with the likelihood in the
\* window and ETA not "Now" a value is present; a value that changes goes
\* down by exactly 1; the updater maps 1 to 1 and every other value to one
\* less; a present value is in 1..COUNTDOWN_START_S.
C6_Countdown ==
  /\ \A p \in 1..COUNTDOWN_START_S :
       CountdownTick(p) = IF p = 1 THEN 1 ELSE p - 1
  /\ etaSeconds = Null
  /\ [][/\ (etaSeconds = Null /\ etaSeconds' # Null) =>
             /\ etaSeconds' = COUNTDOWN_START_S
             /\ InWindow(lk')
             /\ ~etaNow'
        /\ (InWindow(lk') /\ ~etaNow') => etaSeconds' # Null
        /\ (etaSeconds # Null /\ etaSeconds' # Null /\ etaSeconds' # etaSeconds)
             => etaSeconds' = etaSeconds - 1
        /\ etaSeconds' # Null => etaSeconds' \in 1..COUNTDOWN_START_S]_vars

\* the countdown was started and its interval has fired once
C6_Witness == etaSeconds = COUNTDOWN_START_S - 1 /\ InWindow(lk) /\ ~etaNow

\* C7: a step that takes the likelihood below the window while a countdown
\* value is present clears the value and cancels the interval; and with no
\* countdown value present no countdown interval is armed.
C7_CancelBelowWindow ==
  /\ (etaSeconds = Null => CountdownTimers = {})
  /\ [][/\ (etaSeconds # Null /\ lk' < COUNTDOWN_START_PCT * LK_UNIT) =>
             /\ etaSeconds' = Null
             /\ CountdownTimers' = {}
             /\ countdownTimerRef' = Null
        /\ (etaSeconds' = Null => CountdownTimers' = {})]_vars

\* a countdown is running and the tick that is due takes the likelihood
\* below the window
C7_Witness ==
  /\ etaSeconds # Null
  /\ CountdownTimers # {}
  /\ \A t \in timers : t.left >= 0
  /\ \E d \in JitterDraws :
       Smooth(lk, rawLikelihood(EaseSensors(S, targets(rain), d)))
         < COUNTDOWN_START_PCT * LK_UNIT

\* C8: with the likelihood at or above PEAK_NOW_PCT the ETA is "Now", there
\* is no countdown value and no countdown interval; and while the ETA is
\* "Now" no countdown interval is armed.
C8_NowTearsDown ==
  /\ AtNow(lk) => (etaNow /\ etaSeconds = Null /\ CountdownTimers = {})
  /\ etaNow => (CountdownTimers = {} /\ countdownTimerRef = Null)

\* the ETA logic has switched to "Now" during rampDown (the peak-hold
\* timeout had switched it off)
C8_Witness == phase = "rampDown" /\ AtNow(lk) /\ etaNow

\* C9: "Now" and a countdown value never hold together: the ETA is absent,
\* a countdown, or "Now".
C9_EtaExclusive == ~(etaNow /\ etaSeconds # Null)

\* "Now" is on with the likelihood back in the countdown window, and no
\* countdown value has appeared
C9_Witness ==
  /\ phase = "rampDown"
  /\ etaNow
  /\ InWindow(lk)
  /\ etaSeconds = Null

\* C10: every armed countdown interval is the one countdownTimerRef holds,
\* so at most one is armed and none was overwritten and left running; and a
\* step that arms one starts from a state with none armed.
C10_OneCountdownTimer ==
  /\ CountdownTimers = {}
  /\ [][/\ \A t \in CountdownTimers' : t.id = countdownTimerRef'
        /\ Cardinality(CountdownTimers') <= 1
        /\ (countdownTimerRef' # Null) = (CountdownTimers' # {})
        /\ (countdownTimerRef = Null /\ countdownTimerRef' # Null)
             => CountdownTimers = {}]_vars

\* one countdown interval is armed, and countdownTimerRef holds its handle
C10_Witness ==
  /\ Cardinality(CountdownTimers) = 1
  /\ \E t \in CountdownTimers : t.id = countdownTimerRef

\* C11: a DANGER toast is enqueued only by a step that sets the one-shot
\* flag, with the status DANGER after it; whenever the status is DANGER the
\* flag is set (the toast went out when DANGER was first met); the flag
\* stays set until the phase is idle again, so no second toast follows in
\* the cycle; every cycle that ends has raised it; the flag is clear after
\* Start and on the return to idle.
C11_DangerOnce ==
  /\ toasts = <<>> /\ ~dangerAlertedRef
  /\ [][/\ Len(toasts') > Len(toasts) =>
             /\ Len(toasts') = Len(toasts) + 1
             /\ ~dangerAlertedRef /\ dangerAlertedRef'
             /\ stage # "danger" /\ stage' = "danger"
        /\ stage' = "danger" => dangerAlertedRef'
        /\ (dangerAlertedRef /\ phase' # "idle") => dangerAlertedRef'
        /\ (phase = "rampDown" /\ phase' = "idle") => dangerAlertedRef
        /\ phase' = "idle" => ~dangerAlertedRef'
        /\ (phase = "idle" /\ phase' = "rampUp") => ~dangerAlertedRef']_vars

\* the status has left DANGER within the cycle, the toast has expired, and
\* the flag is still set
C11_Witness ==
  /\ phase = "rampDown"
  /\ stage = "subsiding"
  /\ dangerAlertedRef
  /\ toasts = <<>>

\* C19: while the phase is peakHold rain is 100, the ETA is "Now", there is
\* no countdown value, and the dwell timeout is armed.
C19_PeakHoldForced ==
  phase = "peakHold" =>
    /\ rain = 100
    /\ etaNow
    /\ etaSeconds = Null
    /\ PeakHoldTimers # {}

\* peakHold after ticks have passed in it, the likelihood still below "Now"
C19_Witness ==
  /\ phase = "peakHold"
  /\ \E t \in PeakHoldTimers : t.left < PEAK_HOLD_MS
  /\ ~AtNow(lk)

\* C20 (as claimed): the step in which the peak-hold timeout fires leaves
\* the phase rampDown and the ETA not "Now".
C20_NowClearedOnExit ==
  [][(phase = "peakHold" /\ phase' = "rampDown") => ~etaNow']_vars

\* C13 (as claimed): a call of onStartDemo while the phase is not idle
\* leaves none of the peak-hold and countdown timers that were armed before
\* it, and the phase rampUp.
C13_RestartClearsTimers ==
  [][restarts' # restarts =>
       /\ phase' = "rampUp"
       /\ {t \in timers : t.kind # "toast"} \cap timers' = {}]_vars

\* the toasts of a toast list ts whose timeout is armed among the timers tm
Armed(ts, tm) ==
  {i \in DOMAIN ts : \E t \in tm : t.kind = "toast" /\ t.arg = ts[i]}

\* C12 (as claimed): every toast in the list of either control surface has
\* its expiry timeout armed, so it is removed when the timeout fires.
C12_ToastTimerArmed ==
  /\ Armed(toasts, timers) = DOMAIN toasts
  /\ Armed(ctlToasts, ctlTimers) = DOMAIN ctlToasts

\* the state one call of startPMMode leaves, effects included
AfterStartPM(c) == CtlSettle(c, StartPM(c))

\* the cells of Control with every timer handle left out (a handle is a
\* number the window hands out, never the same twice)
ScriptView(c) ==
  [pm |-> c.pm, rain |-> c.rain, level |-> c.level, toasts |-> c.toasts,
   didStartHoldRef |-> c.didStartHoldRef, etaStartedRef |-> c.etaStartedRef,
   toastIdRef |-> c.toastIdRef,
   ramp |-> {<<t.kind, t.left>> : t \in {u \in c.timers : u.id = c.rampIntervalRef}},
   hold |-> {<<t.kind, t.left>> : t \in {u \in c.timers : u.id = c.holdTimeoutRef}},
   cleanup |-> {<<t.kind, t.left>> : t \in {u \in c.timers : u.id = c.etaCleanup}},
   armed |-> {<<t.kind, t.left, t.arg>> : t \in c.timers},
   count |-> Cardinality(c.timers)]

\* C14: from every state of the manual control surface one call of
\* startPMMode leaves pm = rampingUp, rain 0, exactly one ramp interval (the
\* one rampIntervalRef holds), no hold timeout and the hold flag clear, and a
\* second call made at once leaves that state again (up to the handles of
\* the timers).
C14_StartTwice ==
  \A a \in {AfterStartPM(CtlComp)} :
    /\ a.pm = "rampingUp"
    /\ a.rain = 0
    /\ {t \in a.timers : t.kind \in {"rampUp", "rampDown"}}
         = {[id |-> a.rampIntervalRef, kind |-> "rampUp", left |-> PM_UP_MS,
             arg |-> 0]}
    /\ {t \in a.timers : t.kind = "hold"} = {}
    /\ ~a.didStartHoldRef
    /\ ScriptView(AfterStartPM(a)) = ScriptView(a)

\* the script is holding with its timeout pending and the flag set, and the
\* operator can still press Demo Mode
C14_Witness ==
  /\ pm = "holding"
  /\ didStartHoldRef
  /\ \E t \in ctlTimers : t.kind = "hold"
  /\ ctlInputs < MaxInputs

\* the last payload published of kind k
LastPublished(k) == published[k][Len(published[k])]

\* C15: a subscribe call made after one or more publishes of the
\* subscriber's kind invokes the callback exactly once during the call, with
\* the payload published last; a subscribe call made before any publish of
\* the kind does not invoke it
C15_LateJoiner ==
  [][\A s \in Subs :
       (subs[s].st = "none" /\ subs'[s].st = "on") =>
         received'[s] = IF published[SubKind[s]] = <<>> THEN <<>>
                        ELSE <<LastPublished(SubKind[s])>>]_vars

\* the river overlay subscribed after two publishes of different river
\* payloads and its callback has been invoked once, with the second
C15_Witness ==
  /\ subs["riverOv"].st = "on"
  /\ subs["riverOv"].subAt = 2
  /\ published["river"][1] # published["river"][2]
  /\ received["riverOv"] = <<published["river"][2]>>

\* C16: once a subscriber has called the function subscribe returned, its
\* callback is not invoked again, whatever is published and dispatched
C16_Unsubscribed ==
  [][\A s \in Subs : subs[s].st = "off" => received'[s] = received[s]]_vars

\* a payload of the subscriber's kind was published after it unsubscribed,
\* while the channel exists on both sides, and every event the publish
\* queued for the subscriber's context has been dispatched
C16_Witness ==
  \E s \in Subs :
    /\ subs[s].st = "off"
    /\ Len(published[SubKind[s]]) > subs[s].offAt
    /\ channel[CTX_CONTROL] /\ channel[SubCtx[s]]
    /\ msgTasks[SubCtx[s]] = <<>>
    /\ storageTasks[SubCtx[s]] = <<>>

\* the payloads published of subscriber s's kind since it subscribed
Owed(s) ==
  SubSeq(published[SubKind[s]], subs[s].subAt + 1, Len(published[SubKind[s]]))

\* the payloads of the storage events of kind k in the queue q
RECURSIVE StoragePayloads(_, _)
StoragePayloads(k, q) ==
  IF q = <<>> THEN <<>>
  ELSE (IF Head(q).key = KeyOf(k) /\ Head(q).newValue # NoItem
        THEN <<JSONparse(Head(q).newValue).data>> ELSE <<>>)
       \o StoragePayloads(k, Tail(q))

IsSuffix(a, b) ==
  Len(a) <= Len(b) /\ SubSeq(b, Len(b) - Len(a) + 1, Len(b)) = a

\* C17: where BroadcastChannel cannot be constructed, no call of the
\* transport raises, the store holds the last payload published of each
\* kind, a subscriber that found a cached payload was called with it at
\* subscribe time, and every payload published of its kind since is either
\* delivered to a subscriber in another context, in order, or carried by a
\* storage event queued for its window
C17_Fallback ==
  (\A c \in Contexts : ~bcAvailable[c]) =>
    /\ ~thrown
    /\ \A c \in Contexts : ~channel[c] /\ msgTasks[c] = <<>>
    /\ \A k \in Kinds :
         published[k] # <<>> =>
           /\ localStorage[KeyOf(k)] # NoItem
           /\ JSONparse(localStorage[KeyOf(k)]).data = LastPublished(k)
    /\ \A s \in Subs :
         (subs[s].st = "on" /\ SubCtx[s] # CTX_CONTROL) =>
           /\ subs[s].subAt > 0 =>
                /\ received[s] # <<>>
                /\ received[s][1] = published[SubKind[s]][subs[s].subAt]
           /\ IsSuffix(Owed(s),
                       received[s]
                         \o StoragePayloads(SubKind[s], storageTasks[SubCtx[s]]))

\* without BroadcastChannel a subscriber subscribed after the first publish
\* of its kind and has been called with the cached payload and then, through
\* the storage event, with the payload of the second publish
C17_Witness ==
  \E s \in Subs :
    /\ ~bcAvailable[SubCtx[s]] /\ ~bcAvailable[CTX_CONTROL]
    /\ subs[s].st = "on"
    /\ subs[s].subAt = 1
    /\ Len(published[SubKind[s]]) = 2
    /\ storageTasks[SubCtx[s]] = <<>>
    /\ received[s] = published[SubKind[s]]
    /\ ~thrown

\* the messages a channel of the transport's name may carry and the storage
\* events a window may see, of the defined kinds and of another
AnyMessages ==
  [kind : Kinds \cup {"other"}, data : RiverPayloads \cup SkyPayloads]

AnyStorageEvents ==
  [key : Keys \cup {"other_key"},
   newValue : {NoItem} \cup {JSONstringify([t |-> 1, data |-> p]) :
                               p \in RiverPayloads \cup SkyPayloads}]

\* C18: what is not of a consumer's kind is a no-op for it.  The message
\* listener of a subscriber invokes nothing for a message of another kind,
\* its storage listener nothing for an event of another key, bus.onmessage
\* of a display leaves state and video as they are for every action that is
\* no TRIGGER_STATE; and in every step that dispatches such an event the
\* subscriber's calls, the display's state and video stay as they were and
\* nothing is raised
C18_WrongKindNoOp ==
  /\ \A k \in Kinds : \A m \in AnyMessages :
       m.kind # k => onMsg(k, m) = Null
  /\ \A k \in Kinds : \A e \in AnyStorageEvents :
       e.key # KeyOf(k) => onStorage(k, e) = Null
  /\ \A d \in Displays : \A st \in {"NORMAL", "RAIN"} : \A a \in FloodActions :
       a.type # "TRIGGER_STATE" =>
         onmessage(d, [state |-> st, src |-> VideoOf(d, st)], a)
           = [state |-> st, src |-> VideoOf(d, st)]
  /\ [][/\ \A s \in Subs :
             (/\ msgTasks[SubCtx[s]] # <<>>
              /\ msgTasks'[SubCtx[s]] = Tail(msgTasks[SubCtx[s]])
              /\ Head(msgTasks[SubCtx[s]]).kind # SubKind[s])
               => received'[s] = received[s]
        /\ \A s \in Subs :
             (/\ storageTasks[SubCtx[s]] # <<>>
              /\ storageTasks'[SubCtx[s]] = Tail(storageTasks[SubCtx[s]])
              /\ Head(storageTasks[SubCtx[s]]).key # KeyOf(SubKind[s]))
               => received'[s] = received[s]
        /\ \A d \in Displays :
             (/\ busTasks[d] # <<>>
              /\ busTasks'[d] = Tail(busTasks[d])
              /\ Head(busTasks[d]).type # "TRIGGER_STATE")
               => /\ displayState'[d] = displayState[d]
                  /\ displaySrc'[d] = displaySrc[d]
        /\ ~thrown']_vars

\* a sky message is about to be dispatched to the river overlay's message
\* listener, a sky storage event to its storage listener, and a SCRIPT
\* action to the sky display while it shows RAIN
C18_Witness ==
  /\ subs["riverOv"].msgL /\ subs["riverOv"].stoL
  /\ msgTasks[CTX_RIVER_OV] # <<>>
  /\ Head(msgTasks[CTX_RIVER_OV]).kind = "sky"
  /\ storageTasks[CTX_RIVER_OV] # <<>>
  /\ Head(storageTasks[CTX_RIVER_OV]).key = KeyOf("sky")
  /\ displayState["sky"] = "RAIN"
  /\ busTasks["sky"] # <<>>
  /\ Head(busTasks["sky"]).type = "SCRIPT"

\* the levels etaToFloodSeconds is tried on, in mm: below, at and above the
\* base level, the flood level and the highest target
EtaLevels == {0, 200, 350, 351, 500, 705, 900, 999, 1000, 1001, 1049, 1050, 1051, 1200}

\* the ETA of a level and a rain is "no event expected" when the target is
\* at or below the flood level, and a number of ms otherwise
EtaShape(cur, r) ==
  IF tLvl(r) <= FLOOD_LEVEL THEN etaToFloodSeconds(cur, tLvl(r)) = Infinity
  ELSE etaToFloodSeconds(cur, tLvl(r)) \in Nat

\* C21: etaToFloodSeconds is positive infinity whenever the target is at or
\* below the flood level, whatever the current level, and a finite number
\* that is not negative for every other input; so it is for the level and
\* rain of every state the manual control surface reaches
C21_EtaTotal ==
  /\ \A cur \in EtaLevels : \A r \in 0..100 : EtaShape(cur, r)
  /\ EtaShape(level, ctlRain)
  /\ [][EtaShape(level', ctlRain')]_vars

\* rain is at the threshold preset, whose target is below the flood level,
\* the level has risen toward it and no flood is expected
C21_Witness ==
  /\ ctlRain = RAIN_THRESHOLD
  /\ level > CTL_BASE_LEVEL
  /\ tLvl(ctlRain) <= FLOOD_LEVEL
  /\ etaSec(CtlComp) = Infinity

\* C22: whenever the level is at or above the flood level the ETA is zero
\* and the label reads "Now", whatever the rain
C22_NowAtFlood ==
  level >= FLOOD_LEVEL =>
    /\ etaSec(CtlComp) = 0
    /\ etaLabel(etaSec(CtlComp)) = "Now"

\* the numeric fields of the sky overlay's state
SkyNumericFields == {"floodLikelihoodPct", "etaSeconds"}

\* every field of the overlays' held state is a defined, finite value
HeldStateFinite ==
  /\ \A f \in SkyNumericFields : IsFinite(skyD[f])
  /\ skyD.status.t = "string"
  /\ \A f \in DOMAIN riverD : IsFinite(riverD[f])

\* C23: whatever snapshots an overlay is given, every field of its held
\* state is a defined finite value, and a field that is missing or not
\* finite in the snapshot given keeps the value it had
C23_HeldStateFinite ==
  /\ HeldStateFinite
  /\ [][/\ HeldStateFinite'
        /\ ovDelivered'.sky > ovDelivered.sky =>
             \A f \in SkyNumericFields :
               ~IsFinite(ovLast'.sky[f]) => skyD'[f] = skyD[f]
        /\ ovDelivered'.river > ovDelivered.river =>
             \A f \in DOMAIN riverD :
               ~IsFinite(ovLast'.river[f]) => riverD'[f] = riverD[f]]_vars

\* the states normalizeSky is tried on as the previous state
SkyPrevs ==
  [floodLikelihoodPct : {Num(100), Num(700)}, etaSeconds : {Num(6000), Num(0)},
   status : {Str("NORMAL")}]

\* a likelihood is a whole number in 0..100, an ETA a whole number at least 0
SkyInRange(d) ==
  /\ IsFinite(d.floodLikelihoodPct)
  /\ d.floodLikelihoodPct.v % 10 = 0
  /\ d.floodLikelihoodPct.v >= 0 /\ d.floodLikelihoodPct.v <= 1000
  /\ IsFinite(d.etaSeconds)
  /\ d.etaSeconds.v % 10 = 0
  /\ d.etaSeconds.v >= 0

\* C24: normalizeSky keeps the previous value of a field that comes in
\* finite but out of range (a likelihood below 0 or above 100, an ETA below
\* 0), and its result holds a whole likelihood in 0..100 and a whole ETA
\* that is not negative
C24_OutOfRangeFallsBack ==
  /\ \A input \in SkyInputs : \A prev \in SkyPrevs :
       /\ SkyInRange(normalizeSky(input, prev))
       /\ (/\ IsFinite(input.floodLikelihoodPct)
           /\ (input.floodLikelihoodPct.v < 0 \/ input.floodLikelihoodPct.v > 1000))
            => normalizeSky(input, prev).floodLikelihoodPct = prev.floodLikelihoodPct
       /\ (IsFinite(input.etaSeconds) /\ input.etaSeconds.v < 0)
            => normalizeSky(input, prev).etaSeconds = prev.etaSeconds
  /\ SkyInRange(skyD)
  /\ [][/\ SkyInRange(skyD')
        /\ ovDelivered'.sky > ovDelivered.sky =>
             /\ (/\ IsFinite(ovLast'.sky.floodLikelihoodPct)
                 /\ (ovLast'.sky.floodLikelihoodPct.v < 0
                     \/ ovLast'.sky.floodLikelihoodPct.v > 1000))
                  => skyD'.floodLikelihoodPct = skyD.floodLikelihoodPct
             /\ (IsFinite(ovLast'.sky.etaSeconds) /\ ovLast'.sky.etaSeconds.v < 0)
                  => skyD'.etaSeconds = skyD.etaSeconds]_vars

\* C25: once an overlay has been given a live snapshot its held state
\* changes only when it is given another, and is then (the normalisation
\* of) the snapshot given last
C25_DriftStops ==
  [][/\ (ovDelivered.sky > 0 /\ skyD' # skyD)
          => ovDelivered'.sky = ovDelivered.sky + 1
     /\ ovDelivered'.sky > ovDelivered.sky
          => skyD' = normalizeSky(ovLast'.sky, skyD)
     /\ (ovDelivered.river > 0 /\ riverD' # riverD)
          => ovDelivered'.river = ovDelivered.river + 1
     /\ ovDelivered'.river > 0 => riverD' = ovLast'.river]_vars

\* C26: once a control surface is torn down none of the timers it armed is
\* pending
C26_NoTimerAfterTeardown ==
  /\ ~liteMounted => timers = {}
  /\ ~ctlMounted => ctlTimers = {}

\* rain is at 100 and the phase keeps it there
RainHeld == rain = 100 /\ phase \in {"rampUp", "peakHold"}

\* lines 357-372: where the setS updater settles when every draw is the
\* extreme one against the likelihood: the jitter of a tick is added after
\* the easing by t = 0.2, so that the sensor rests 1 / t = 5 jitters from
\* its target (below it; above it for the pressure, whose drop is scored)
JitterFloor(r) ==
  LET tg == targets(r)
      off(k) == 5 * Abs(Jitter(k, tg[k], 1))
  IN  [k \in DOMAIN tg |->
         IF k = "pressure" THEN tg[k] + off(k) ELSE tg[k] - off(k)]

\* the plateau of the likelihood with rain at 100: the scores between the
\* one of the jitter floor and the one of the targets
PlateauFloor == rawLikelihood(JitterFloor(100))

JitterBound(k, t) == Abs(Jitter(k, t, 1))

\* the distance from the target at which the easing by t = 0.2 of a tick
\* and its largest jitter balance
Eps(k, t) == 5 * JitterBound(k, t)

\* lines 357-372, the other edge of the jitter band around the targets of
\* rain r: every scored sensor as far on the side of a flood as the jitter
\* can hold it
JitterCeil(r) ==
  LET tg == targets(r)
  IN  [k \in DOMAIN tg |->
         IF k = "pressure" THEN tg[k] - Eps(k, tg[k]) ELSE tg[k] + Eps(k, tg[k])]

\* one tick from cur to nxt with the targets tg: no sensor gets farther from
\* its target than the jitter takes it, none passes its target by more than
\* the jitter, outside of Eps the distance shrinks and inside it stays there
EasesToward(cur, nxt, tg) ==
  \A k \in DOMAIN tg :
    LET t == tg[k]
        d0 == Abs(cur[k] - t)
        d1 == Abs(nxt[k] - t)
        j == JitterBound(k, t)
    IN  /\ d1 <= d0 + j
        /\ cur[k] <= t => nxt[k] <= t + j
        /\ cur[k] >= t => nxt[k] >= t - j
        /\ d0 > Eps(k, t) => d1 < d0
        /\ d0 <= Eps(k, t) => d1 <= Eps(k, t)

\* sensor states to ease from: the baseline and the targets of heavy rain
EaseFrom == {BASE, targets(50), targets(100)}

\* lines 134-149 of control.tsx: a physics tick of the level from cur with
\* rain r gets nearer to the target and does not pass it
CtlEasesToward(cur, r) ==
  LET t == tLvl(r)
      nxt == lerp(cur, t, ALPHA_LEVEL_PCT)
  IN  /\ cur # t => Abs(nxt - t) < Abs(cur - t)
      /\ cur <= t => nxt <= t
      /\ cur >= t => nxt >= t

C29_PublishesOnChange ==
  [][(level' # level \/ etaToFloodSeconds(level', tLvl(ctlRain'))
             # etaToFloodSeconds(level, tLvl(ctlRain))
        \/ (level' >= FLOOD_LEVEL) # (level >= FLOOD_LEVEL))
       => published' # published]_vars

\* C30: rain is an integer in 0..100 in every state of both control
\* surfaces
C30_RainInRange ==
  /\ rain \in 0..100
  /\ ctlRain \in 0..100

\* the operator moved rain while the demo of Control ramped up, and the
\* ramp has stopped at 100
C30_Witness ==
  /\ ctlMounted
  /\ ctlInputs > 0
  /\ pm = "waitingFlood"
  /\ ctlRain = 100

\* C31: a step changes rain only as the phase says: in rampUp to
\* min(100, rain + 4), in rampDown to max(0, rain - 3), in idle and peakHold
\* not at all; so rain never falls in rampUp and never rises in rampDown,
\* and a tick (it moves the sensors) moves rain until it is at its end
C31_RainByPhase ==
  [][/\ phase = "rampUp"
          => (rain' = rain \/ rain' = (IF rain + 4 > 100 THEN 100 ELSE rain + 4))
     /\ phase = "rampDown"
          => (rain' = rain \/ rain' = (IF rain - 3 < 0 THEN 0 ELSE rain - 3))
     /\ phase \in {"idle", "peakHold"} => rain' = rain
     /\ phase = "rampUp" => rain' >= rain
     /\ phase = "rampDown" => rain' <= rain
     /\ (S' # S /\ phase = "rampUp" /\ rain < 100) => rain' > rain
     /\ (S' # S /\ phase = "rampDown" /\ rain > 0) => rain' < rain]_vars

\* the last tick of a ramp-down took rain from below the step to 0
C31_Witness == phase = "rampDown" /\ rain = 0 /\ ~close(S)

\* C32: a step takes the phase to peakHold only from rampUp and only if an exit
\* trigger holds at the tick: the likelihood is at PEAK_NOW_PCT, or the
\* status has been DANGER for DANGER_DWELL_MS, or rain is at 99, or
\* MAX_RAMPUP_MS have passed in this rampUp; and the danger-dwell clock runs
\* only while the phase is rampUp and the status DANGER
C32_ExitNeedsTrigger ==
  /\ [](dangerSinceRef # Null => (phase = "rampUp" /\ stage = "danger"))
  /\ [][(phase # "peakHold" /\ phase' = "peakHold")
          => /\ phase = "rampUp"
             /\ \/ lk' >= PEAK_NOW_PCT * LK_UNIT
                \/ /\ dangerSinceRef # Null
                   /\ stage = "danger"
                   /\ dangerSinceRef + TICK_MS >= DANGER_DWELL_MS
                \/ (IF rain + RAMP_UP_STEP > 100 THEN 100
                    ELSE rain + RAMP_UP_STEP) >= 99
                \/ /\ rampUpSinceRef # Null
                   /\ rampUpSinceRef + TICK_MS >= MAX_RAMPUP_MS]_vars
  /\ [][phase' # "rampUp" \/ stage' # "danger" => dangerSinceRef' = Null]_vars

\* peakHold has just been entered from rampUp, the danger-dwell clock is
\* stopped
C32_Witness ==
  /\ phase = "peakHold"
  /\ \E t \in PeakHoldTimers : t.left = PEAK_HOLD_MS
  /\ rampUpSinceRef # Null
  /\ dangerSinceRef = Null

\* the TRIGGER_STATE actions among the actions out, in the order sent
Triggers(out) == SelectSeq(out, LAMBDA m : m.type = "TRIGGER_STATE")

\* the SET_RAIN_LEVEL actions among the actions out
RainLevels(out) == SelectSeq(out, LAMBDA m : m.type = "SET_RAIN_LEVEL")

\* the state a TRIGGER_STATE carries when rain is / is not at the threshold
StateOf(raining) == IF raining THEN "RAIN" ELSE "NORMAL"

\* C35: Control sends TRIGGER_STATE only when rain >= 70 changes value: the
\* states sent alternate, starting with RAIN; after every event the last
\* state sent (NORMAL if none was) is RAIN exactly when rain >= 70; and an
\* event that changes rain sends SET_RAIN_LEVEL with the new value, an event
\* that does not sends none
C35_TriggerOnChange ==
  /\ [](wasRainingRef = (ctlRain >= RAIN_THRESHOLD))
  /\ [][LET T == Triggers(ctlOut')
            R == RainLevels(ctlOut')
        IN  /\ \A i \in DOMAIN T :
                 T[i].state = StateOf(IF i % 2 = 1 THEN ~wasRainingRef
                                      ELSE wasRainingRef)
            /\ wasRainingRef' = (IF Len(T) % 2 = 1 THEN ~wasRainingRef
                                 ELSE wasRainingRef)
            /\ (T # <<>>) => (ctlRain' >= RAIN_THRESHOLD) # (ctlRain >= RAIN_THRESHOLD)
            /\ ctlRain' # ctlRain
                 => (R # <<>> /\ R[Len(R)].value = ctlRain')
            /\ ctlRain' = ctlRain => R = <<>>]_vars

\* rain has gone over the threshold and has just come back under it: NORMAL
\* was sent after RAIN
C35_Witness ==
  /\ ~wasRainingRef
  /\ Triggers(ctlOut) = <<TriggerState("NORMAL")>>
  /\ pm = "rampingDown"

\* the order of the script states
PMEdgeSet ==
  {<<"idle", "rampingUp">>, <<"rampingUp", "waitingFlood">>,
   <<"waitingFlood", "holding">>, <<"holding", "rampingDown">>,
   <<"rampingDown", "idle">>}

HoldTimers == {t \in ctlTimers : t.kind = "hold"}

\* C33: with Demo Mode pressed once and no other input the script state
\* goes rampingUp, waitingFlood, holding, rampingDown, idle: rain rises by
\* 10 to 100, holding is entered with the ETA at 0 (the level at the flood
\* level), lasts one timer of 20 s, rain then falls by 5 and idle is
\* entered exactly when rain reaches 0; SCRIPT PM_MODE is sent at the start
\* and SCRIPT STOP once, at the end; and the run gets to its end
C33_ScriptOrder ==
  /\ [][/\ pm' # pm => <<pm, pm'>> \in PMEdgeSet
        /\ (pm = "rampingUp" /\ ctlRain' # ctlRain)
             => ctlRain' = (IF ctlRain + 10 > 100 THEN 100 ELSE ctlRain + 10)
        /\ (pm = "rampingUp" /\ pm' = "waitingFlood") <=>
             (pm = "rampingUp" /\ ctlRain < 100 /\ ctlRain' = 100)
        /\ (pm # "holding" /\ pm' = "holding")
             => /\ level' >= FLOOD_LEVEL
                /\ etaToFloodSeconds(level', tLvl(ctlRain')) = 0
                /\ \E t \in HoldTimers' : t.left = 20000
        /\ (pm = "holding" /\ pm' # "holding")
             => \E t \in HoldTimers : t.left <= 0
        /\ (pm = "rampingDown" /\ ctlRain' # ctlRain)
             => ctlRain' = (IF ctlRain - 5 < 0 THEN 0 ELSE ctlRain - 5)
        /\ pm = "rampingDown" => (pm' = "idle" <=> ctlRain' = 0)
        /\ Script("PM_MODE") \in {ctlOut'[i] : i \in DOMAIN ctlOut'}
             <=> (pm = "idle" /\ pm' = "rampingUp")
        /\ Script("STOP") \in {ctlOut'[i] : i \in DOMAIN ctlOut'}
             <=> (pm = "rampingDown" /\ pm' = "idle")
        /\ Len(SelectSeq(ctlOut', LAMBDA m : m.type = "SCRIPT")) <= 1]_vars
  /\ [](pm = "holding" => Cardinality(HoldTimers) = 1)
  /\ (pm = "rampingUp") ~> (pm = "waitingFlood")
  /\ (pm = "waitingFlood") ~> (pm = "holding")
  /\ (pm = "holding") ~> (pm = "rampingDown")
  /\ (pm = "rampingDown") ~> (pm = "idle")

\* the script has run to its end: SCRIPT STOP has just been sent
C33_Witness ==
  /\ pm = "idle"
  /\ ctlInputs = 1
  /\ ctlRain = 0
  /\ ctlOut = <<Script("STOP"), SetRainLevel(0)>>

\* the script hangs: it waits for the flood with no ramp or hold timer
\* armed, while the level is below the flood level and the target of the
\* rain is not above it; the physics ticks only ease the level toward that
\* target, so that without another input the ETA never gets to 0
ScriptHangs ==
  /\ pm = "waitingFlood"
  /\ ctlTimers \subseteq {t \in ctlTimers : t.kind = "toast"}
  /\ level < FLOOD_LEVEL
  /\ tLvl(ctlRain) <= FLOOD_LEVEL

\* C34 (as claimed): once Demo Mode has been pressed the script is on its
\* way back to idle whatever the operator does with rain: it is never in a
\* state that only a further input can take it out of
C34_ScriptTerminates == ~ScriptHangs

\* C36 (as claimed): a display that is open and has no message left to
\* receive shows the state that matches Control, RAIN exactly when
\* rain >= 70, also when it was opened after Control sent its
\* TRIGGER_STATE
C36_LateDisplayMatches ==
  \A d \in Displays :
    (displayOpen[d] /\ busTasks[d] = <<>>)
      => displayState[d] = StateOf(ctlRain >= RAIN_THRESHOLD)

\* the number of times the payload p occurs in the sequence q
Count(q, p) == Len(SelectSeq(q, LAMBDA x : x = p))

\* C37 (as claimed): with the live channel and the storage events working,
\* the callback of a subscriber in another context is invoked at most once
\* for each publish of its kind
C37_AtMostOnce ==
  (\A c \in Contexts : bcAvailable[c]) =>
    \A s \in Subs : Len(received[s]) <= Len(published[SubKind[s]])

\* C37 (amended): the callback is invoked at most twice for each publish of
\* its kind, once for the message and once for the storage event (or the
\* cached snapshot), each time with the payload of that publish
C37_AtMostTwice ==
  \A s \in Subs :
    \A p \in RiverPayloads \cup SkyPayloads :
      Count(received[s], p) <= 2 * Count(published[SubKind[s]], p)

\* with the channel working, one publish has reached the subscriber twice:
\* by its message and by its storage event
C37_Witness ==
  \E s \in Subs :
    /\ bcAvailable[SubCtx[s]] /\ bcAvailable[CTX_CONTROL]
    /\ subs[s].st = "on"
    /\ subs[s].subAt = 0
    /\ Len(published[SubKind[s]]) = 1
    /\ received[s] = published[SubKind[s]] \o published[SubKind[s]]

\* line 250: the closed-form ETA of the rendered level and rain is running
EtaRunning == timerRunning(etaToFloodSeconds(level, tLvl(ctlRain)))

\* C38: the ETA-started toast is edge-triggered: an event that takes the
\* ETA from not running to running enqueues exactly one toast, one that
\* leaves it running or not running enqueues none, and the one-shot flag is
\* set exactly while the ETA is running
C38_EtaToastOnEdge ==
  /\ [](etaStartedRef = EtaRunning)
  /\ [][/\ (/\ ~EtaRunning
            /\ timerRunning(etaToFloodSeconds(level', tLvl(ctlRain'))))
             => /\ toastIdRef' = toastIdRef + 1
                /\ ctlToasts' # <<>>
                /\ ctlToasts'[1] = toastIdRef'
        /\ (\/ EtaRunning
            \/ ~timerRunning(etaToFloodSeconds(level', tLvl(ctlRain'))))
             => toastIdRef' = toastIdRef
        /\ \A i \in DOMAIN ctlToasts' :
             ctlToasts'[i] # toastIdRef' =>
               \E j \in DOMAIN ctlToasts : ctlToasts[j] = ctlToasts'[i]]_vars

\* the ETA has started running for the second time and the second toast
\* is shown
C38_Witness ==
  /\ EtaRunning
  /\ etaStartedRef
  /\ toastIdRef = 2
  /\ ctlToasts # <<>>
  /\ ctlToasts[1] = 2

\* sensors with every scored deviation n times its scale (lines 187-192)
Deviated(n) ==
  [BASE EXCEPT !.level = @ + n * 75, !.flow = @ + n * 90,
               !.upstreamLevel = @ + n * 80, !.turbidity = @ + n * 85,
               !.rainRate = @ + n * 120, !.pressure = @ - n * 9]

\* the likelihood scores, in lk's unit
Scores == 0..(100 * LK_UNIT)

\* C39: the raw and the smoothed likelihood are within 0..100 in every
\* state; the raw one is 0 with every sensor at or below its baseline
\* deviation and 100 with every sensor at or beyond its largest (the
\* weights sum to 1), and smoothing with the step clamp keeps a score
\* within 0..100
C39_ScoresInRange ==
  /\ \A n \in {0 - 1, 0} : rawLikelihood(Deviated(n)) = 0
  /\ \A n \in {1, 2} : rawLikelihood(Deviated(n)) = 100 * LK_UNIT
  /\ \A prev \in Scores : \A raw \in Scores : Smooth(prev, raw) \in Scores
  /\ [](lk \in Scores /\ rawLikelihood(S) \in Scores)

\* every scored sensor is at its largest deviation and the smoothed
\* likelihood has come to within a point of 100
C39_Witness ==
  /\ rawLikelihood(S) = 100 * LK_UNIT
  /\ lk >= 99 * LK_UNIT

\* C40 (as claimed): in a render whose phase is rampDown the ETA logic
\* does not set the ETA to "Now" and starts no countdown: a step that ends
\* in rampDown ends with "Now" only if rampDown began with it, and with no
\* countdown value or countdown interval that was not there before
C40_NoEtaInRampDown ==
  [][phase' = "rampDown"
       => /\ etaNow' => (etaNow /\ phase = "rampDown")
          /\ etaSeconds' # Null => etaSeconds # Null
          /\ {t.id : t \in CountdownTimers'} \subseteq
               {t.id : t \in CountdownTimers}]_vars

====
